---- MODULE Spec2Model ----
(***************************************************************************)
(* BuildingTools placement engine: the linear array placer                 *)
(* (instanceArray.py), the chain orderer / chain placer (instanceChain.py) *)
(* and the radial placer (instanceRadial.py), each driving the scene graph *)
(* of the host (maya.cmds).                                                *)
(*                                                                         *)
(* Numbers.  The source computes in IEEE doubles.  The model computes the  *)
(* same expressions in exact rational arithmetic: a number is a pair       *)
(* <<n, d>> in lowest terms with d > 0.  Square roots are taken only of    *)
(* exact squares (the inputs are chosen so), distances are otherwise       *)
(* compared through their squares.  Rounding of doubles is not modelled.   *)
(***************************************************************************)
EXTENDS Integers, Sequences, FiniteSets, TLC

VARIABLES
    scene,      \* the scene graph as it is before the call (read by queries)
    args,       \* the arguments of the running call
    pc,         \* position of the running call
    loc,        \* the call's local variables, under the source's names
    steps,      \* the list the placement loop iterates over
    nodes,      \* scene nodes created by the call, in creation order
    created,    \* the list `created` (ids into nodes) the call returns
    warnings,   \* cmds.warning diagnostics emitted, in order
    error,      \* "" or the fatal error (cmds.error / uncaught exception)
    log,        \* scene-graph commands issued, in order
    prior       \* <<>>, or the outcome of the call made before the running one

vars ==
    <<scene, args, pc, loc, steps, nodes, created, warnings, error, log, prior>>

None == "<None>"

-----------------------------------------------------------------------------
(* Exact rationals                                                         *)

RECURSIVE GCD(_, _)
GCD(a, b) == IF b = 0 THEN a ELSE GCD(b, a % b)

Abs(n) == IF n < 0 THEN -n ELSE n

LCM(a, b) == (a \div GCD(a, b)) * b

Q(n, d) ==
    LET s == IF d < 0 THEN -1 ELSE 1
        g == GCD(Abs(n), Abs(d))
    IN  <<(s * n) \div g, (s * d) \div g>>

I(n) == <<n, 1>>

RNeg(a) == <<-a[1], a[2]>>

RAdd(a, b) ==
    LET l == LCM(a[2], b[2])
    IN  Q(a[1] * (l \div a[2]) + b[1] * (l \div b[2]), l)

RSub(a, b) == RAdd(a, RNeg(b))

RMul(a, b) ==
    LET g1 == GCD(Abs(a[1]), b[2])
        g2 == GCD(Abs(b[1]), a[2])
    IN  Q((a[1] \div g1) * (b[1] \div g2), (a[2] \div g2) * (b[2] \div g1))

RInv(a) == Q(a[2], a[1])

RDiv(a, b) == RMul(a, RInv(b))

RLt(a, b) ==
    LET l == LCM(a[2], b[2])
    IN  a[1] * (l \div a[2]) < b[1] * (l \div b[2])

RLe(a, b) == ~RLt(b, a)

RAbs(a) == <<Abs(a[1]), a[2]>>

RMax(a, b) == IF RLt(a, b) THEN b ELSE a

RMin(a, b) == IF RLt(b, a) THEN b ELSE a

RFloor(a) == a[1] \div a[2]

\* math.sqrt of an exact square; SqrtBound bounds the search for the root.
SqrtBound == 64

ISqrt(n) == CHOOSE r \in 0..SqrtBound : r * r = n

RSqrt(a) == <<ISqrt(a[1]), ISqrt(a[2])>>

-----------------------------------------------------------------------------
(* Vectors: 3-tuples of rationals                                          *)

V(x, y, z) == <<I(x), I(y), I(z)>>

Zero3 == V(0, 0, 0)

vec_sub(a, b) == [i \in 1..3 |-> RSub(a[i], b[i])]

vec_add(a, b) == [i \in 1..3 |-> RAdd(a[i], b[i])]

vec_mul(a, s) == [i \in 1..3 |-> RMul(a[i], s)]

dot(a, b) == RAdd(RAdd(RMul(a[1], b[1]), RMul(a[2], b[2])), RMul(a[3], b[3]))

\* sqrt(x*x + y*y + z*z).  A vector along one axis has the length |component|
\* (so that coordinates with a denominator of 10^6 do not have to be squared).
vec_len(a) ==
    LET nz == {i \in 1..3 : a[i][1] # 0}
    IN  IF nz = {} THEN I(0)
        ELSE IF Cardinality(nz) = 1 THEN RAbs(a[CHOOSE i \in nz : TRUE])
        ELSE RSqrt(dot(a, a))

-----------------------------------------------------------------------------
(* Program constants                                                       *)

\* eps = 1e-6 (instanceArray.py:287, :40, :55, :190; instanceChain.py:314)
EpsDen == 1000000

Eps == <<1, EpsDen>>

\* _AXIS_INDICES (1-based here)
AXIS_INDICES(a) == CASE a = "x" -> 1 [] a = "y" -> 2 [] a = "z" -> 3

AxisNames == {"x", "y", "z"}

\* str.lower() on the axis labels the inputs use
Lower(s) ==
    CASE s = "X" -> "x" [] s = "Y" -> "y" [] s = "Z" -> "z" [] OTHER -> s

-----------------------------------------------------------------------------
(* Scene nodes the calls create                                            *)

World == [scene |-> "", new |-> 0]

UnderScene(name) == [scene |-> name, new |-> 0]

UnderNew(id) == [scene |-> "", new |-> id]

\* A node right after cmds.instance(template): its own transform, carrying the
\* template's transform values, at the template's place in the hierarchy.
NewNode(kind, of) ==
    [kind |-> kind, of |-> of, parent |-> World, pos |-> Zero3,
     rot |-> [mode |-> "template", node |-> of, at |-> Zero3],
     scale |-> V(1, 1, 1), alive |-> TRUE]

LocInit ==
    [parent |-> None, child |-> None, count_mode |-> FALSE,
     c_pos |-> Zero3, p_pos |-> Zero3, parent_target |-> None,
     group_node |-> 0, alternate_axis |-> None,
     base_scale_values |-> V(1, 1, 1),
     spacing_value |-> I(0), direction |-> Zero3, aim_helper |-> 0]

\* A host command that raises RuntimeError while the call places its instances:
\* scene.raises names the command and the placement (1-based) at which it does.
NoRaise == [cmd |-> "", at |-> 0]

Raises(cmd) == scene.raises.cmd = cmd /\ scene.raises.at = Len(created) + 1

Alive(kind) == {i \in 1..Len(nodes) : nodes[i].kind = kind /\ nodes[i].alive}

Made(kind) == {i \in 1..Len(nodes) : nodes[i].kind = kind}

-----------------------------------------------------------------------------
(* instanceArray.py: instance_child_between_parent                         *)

\* lines 116-127: anchors from the arguments, else from the ordered selection
selection_parent == IF Len(scene.sel) >= 1 THEN scene.sel[1] ELSE None

selection_child == IF Len(scene.sel) >= 2 THEN scene.sel[2] ELSE None

resolved_child ==
    IF args.child # None THEN args.child
    ELSE IF selection_child # None THEN selection_child
    ELSE selection_parent

resolved_parent ==
    IF args.parent = None /\ selection_parent # None
       /\ selection_parent # resolved_child
    THEN selection_parent
    ELSE args.parent

\* line 135
count_mode_of(parent) ==
    args.use_bbox_spacing /\ (args.bbox_count_mode \/ parent = None)

\* lines 129-138: the fatal errors of anchor resolution ("" when none)
resolve_error ==
    IF resolved_child = None \/ resolved_child \notin scene.exists
    THEN "child"
    ELSE IF resolved_parent # None /\ resolved_parent \notin scene.exists
    THEN "parent"
    ELSE IF ~count_mode_of(resolved_parent) /\ resolved_parent = None
    THEN "anchors"
    ELSE ""

\* mutant: the grouping container is made before the anchors are checked
linear_resolve_grouping ==
    /\ pc = "linear"
    /\ nodes' = IF args.group_name # None
                THEN Append(nodes, NewNode("group", None)) ELSE nodes
    /\ log' = log \o <<"ls", "group", "objExists">>
    /\ IF resolve_error # ""
       THEN /\ pc' = "failed"
            /\ error' = resolve_error
            /\ UNCHANGED loc
       ELSE /\ pc' = "prepare"
            /\ loc' = [loc EXCEPT !.child = resolved_child,
                                  !.parent = resolved_parent,
                                  !.count_mode = count_mode_of(resolved_parent)]
            /\ UNCHANGED error
    /\ UNCHANGED <<prior, scene, args, steps, created, warnings>>

linear_resolve ==
    /\ pc = "linear"
    /\ log' = log \o <<"ls", "objExists">>
    /\ IF resolve_error # ""
       THEN /\ pc' = "failed"
            /\ error' = resolve_error
            /\ UNCHANGED loc
       ELSE /\ pc' = "prepare"
            /\ loc' = [loc EXCEPT !.child = resolved_child,
                                  !.parent = resolved_parent,
                                  !.count_mode = count_mode_of(resolved_parent)]
            /\ UNCHANGED error
    /\ UNCHANGED <<prior, scene, args, steps, nodes, created, warnings>>

\* lines 150-159
parent_target_of ==
    IF ~args.parent_instances_to_parent THEN None
    ELSE IF loc.parent # None /\ loc.parent \in scene.exists THEN loc.parent
    ELSE IF loc.count_mode
            /\ scene.parentOf[loc.child] # None
            /\ scene.parentOf[loc.child] \in scene.exists
         THEN scene.parentOf[loc.child]
    ELSE None

\* lines 170-173
alternate_axis_of ==
    IF ~args.alternate_scale THEN None
    ELSE LET a == Lower(args.alternate_scale_axis)
         IN  IF a \in AxisNames THEN a ELSE "x"

\* lines 140-181: positions, attachment target, grouping container, base scale.
\* The scale is read from the child whose position the same xform query has
\* just returned (line 140), so the read of lines 174-177 succeeds.
linear_prepare ==
    /\ pc = "prepare"
    /\ LET pt == parent_target_of
           grp == [NewNode("group", None) EXCEPT
                     !.parent = IF pt # None THEN UnderScene(pt) ELSE World]
           mk == args.group_name # None
       IN  /\ nodes' = IF mk THEN Append(nodes, grp) ELSE nodes
           /\ loc' = [loc EXCEPT
                  !.c_pos = scene.pos[loc.child],
                  !.p_pos = IF loc.count_mode THEN Zero3
                            ELSE scene.pos[loc.parent],
                  !.parent_target = pt,
                  !.group_node = IF mk THEN Len(nodes) + 1 ELSE 0,
                  !.alternate_axis = alternate_axis_of,
                  !.base_scale_values =
                      IF args.alternate_scale THEN scene.scale[loc.child]
                      ELSE V(1, 1, 1)]
           /\ log' = log
                \o <<"query_t">>
                \o (IF loc.count_mode THEN <<>> ELSE <<"query_t">>)
                \o <<"listRelatives">>
                \o (IF mk THEN <<"group">> ELSE <<>>)
                \o (IF mk /\ pt # None THEN <<"parent">> ELSE <<>>)
                \o (IF args.alternate_scale THEN <<"query_s">> ELSE <<>>)
    /\ pc' = IF loc.count_mode THEN "count_steps" ELSE "interp_steps"
    /\ UNCHANGED <<prior, scene, args, steps, created, warnings, error>>

\* lines 8-60: _compute_bbox_axis_info(node, axis); ok = FALSE stands for None
NoInfo == [ok |-> FALSE, spacing |-> I(0), has_dir |-> FALSE, direction |-> Zero3]

ZeroInfo == [ok |-> TRUE, spacing |-> I(0), has_dir |-> FALSE, direction |-> Zero3]

compute_bbox_axis_info(node, axis_arg) ==
    LET low == Lower(axis_arg)
        axis == IF low \in AxisNames THEN low ELSE "x"
        axis_index == AXIS_INDICES(axis)
        bbox == scene.bbox[node]
        base_size == RAbs(RSub(bbox.max[axis_index], bbox.min[axis_index]))
        matrix == scene.matrix[node]
        vec == <<matrix[axis_index], matrix[axis_index + 4],
                 matrix[axis_index + 8]>>
        length == vec_len(vec)
    IN  IF node \notin scene.exists THEN NoInfo
        ELSE IF ~bbox.ok THEN NoInfo
        ELSE IF RLe(base_size, Eps) THEN ZeroInfo
        ELSE IF RLe(length, Eps) THEN ZeroInfo
        ELSE [ok |-> TRUE, spacing |-> RMul(base_size, length), has_dir |-> TRUE,
              direction |-> [i \in 1..3 |-> RDiv(vec[i], length)]]

\* lines 63-69
compute_bbox_spacing(node, axis_arg) == compute_bbox_axis_info(node, axis_arg)

\* mutant: the walk stops at the far end itself, without the tolerance
RECURSIVE spacing_walk_no_eps(_, _, _)
spacing_walk_no_eps(current, spacing_value, total_dist) ==
    IF RLt(current, total_dist)
    THEN <<RDiv(current, total_dist)>>
         \o spacing_walk_no_eps(RAdd(current, spacing_value), spacing_value,
                                total_dist)
    ELSE <<>>

\* lines 295-298: current = spacing; while current < total_dist - eps: ...
RECURSIVE spacing_walk(_, _, _)
spacing_walk(current, spacing_value, total_dist) ==
    IF RLt(current, RSub(total_dist, Eps))
    THEN <<RDiv(current, total_dist)>>
         \o spacing_walk(RAdd(current, spacing_value), spacing_value, total_dist)
    ELSE <<>>

\* mutant: the divisor is count instead of count + 1
fixed_count_steps_over_count(count) == [i \in 1..count |-> Q(i, count)]

\* line 306: [float(i)/(count+1) for i in range(1, count+1)]
fixed_count_steps(count) == [i \in 1..count |-> Q(i, count + 1)]

\* lines 299-300, 307-308
with_end(s) == IF args.include_end THEN Append(s, I(1)) ELSE s

\* mutant: coincident anchors never yield a step
coincident_steps_none == <<>>

\* lines 288-290: coincident anchors: only include_end yields a step
coincident_steps == with_end(<<>>)

Outcome(ret, warn, err, s) == [ret |-> ret, warn |-> warn, err |-> err, steps |-> s]

\* mutant: count < 1 ends the call whatever the variant
steps_outcome_count_first(use_spacing, spacing_value) ==
    LET total_dist == vec_len(vec_sub(loc.c_pos, loc.p_pos))
        s == IF use_spacing
             THEN IF RLe(total_dist, Eps)
                  THEN coincident_steps
                  ELSE with_end(spacing_walk(spacing_value, spacing_value,
                                             total_dist))
             ELSE with_end(fixed_count_steps(args.count.v))
    IN  IF args.count.ok /\ args.count.v < 1
        THEN Outcome(TRUE, "count_lt_1", "", <<>>)
        ELSE IF use_spacing /\ RLe(total_dist, Eps) /\ ~args.include_end
        THEN Outcome(TRUE, "same_position", "", <<>>)
        ELSE IF ~use_spacing /\ ~args.count.ok
        THEN Outcome(TRUE, "", "TypeError", <<>>)
        ELSE IF s = <<>>
        THEN Outcome(TRUE, "no_steps", "", <<>>)
        ELSE Outcome(FALSE, "", "", s)

\* lines 283-312, given the spacing in force (use_spacing) or none
steps_outcome(use_spacing, spacing_value) ==
    LET total_dist == vec_len(vec_sub(loc.c_pos, loc.p_pos))
        s == IF use_spacing
             THEN IF RLe(total_dist, Eps)
                  THEN coincident_steps
                  ELSE with_end(spacing_walk(spacing_value, spacing_value,
                                             total_dist))
             ELSE with_end(fixed_count_steps(args.count.v))
    IN  IF use_spacing /\ RLe(total_dist, Eps) /\ ~args.include_end
        THEN Outcome(TRUE, "same_position", "", <<>>)
        ELSE IF ~use_spacing /\ ~args.count.ok
        THEN Outcome(TRUE, "", "TypeError", <<>>)
        ELSE IF ~use_spacing /\ args.count.v < 1
        THEN Outcome(TRUE, "count_lt_1", "", <<>>)
        ELSE IF s = <<>>
        THEN Outcome(TRUE, "no_steps", "", <<>>)
        ELSE Outcome(FALSE, "", "", s)

\* mutant: the conversion error of float(spacing) is not caught
interp_outcome_raising ==
    LET info == compute_bbox_spacing(loc.child, args.bbox_axis)
    IN  IF args.use_bbox_spacing
        THEN IF ~info.ok THEN Outcome(TRUE, "bbox_failed", "", <<>>)
             ELSE IF RLe(info.spacing, Eps)
             THEN Outcome(TRUE, "bbox_zero", "", <<>>)
             ELSE steps_outcome(TRUE, info.spacing)
        ELSE IF args.spacing.k # "None"
        THEN IF args.spacing.k = "bad"
             THEN Outcome(TRUE, "", "ValueError", <<>>)
             ELSE IF RLe(args.spacing.v, I(0))
             THEN Outcome(TRUE, "spacing_not_positive", "", <<>>)
             ELSE steps_outcome(TRUE, args.spacing.v)
        ELSE steps_outcome(FALSE, I(0))

\* lines 261-312: the spacing in force, then the steps
interp_outcome ==
    LET info == compute_bbox_spacing(loc.child, args.bbox_axis)
    IN  IF args.use_bbox_spacing
        THEN IF ~info.ok THEN Outcome(TRUE, "bbox_failed", "", <<>>)
             ELSE IF RLe(info.spacing, Eps)
             THEN Outcome(TRUE, "bbox_zero", "", <<>>)
             ELSE steps_outcome(TRUE, info.spacing)
        ELSE IF args.spacing.k # "None"
        THEN IF args.spacing.k = "bad"
             THEN Outcome(TRUE, "spacing_not_number", "", <<>>)
             ELSE IF RLe(args.spacing.v, I(0))
             THEN Outcome(TRUE, "spacing_not_positive", "", <<>>)
             ELSE steps_outcome(TRUE, args.spacing.v)
        ELSE steps_outcome(FALSE, I(0))

linear_steps ==
    /\ pc = "interp_steps"
    /\ LET o == interp_outcome
       IN  /\ steps' = o.steps
           /\ warnings' = IF o.warn # "" THEN Append(warnings, o.warn)
                          ELSE warnings
           /\ error' = o.err
           /\ pc' = IF o.err # "" THEN "failed"
                    ELSE IF o.ret THEN "returned" ELSE "place"
    /\ log' = log \o (IF args.use_bbox_spacing THEN <<"query_bb">> ELSE <<>>)
    /\ UNCHANGED <<prior, scene, args, loc, nodes, created>>

\* mutant: the even indices are the negated ones
flip_even(index) == IF index % 2 = 0 THEN -1 ELSE 1

\* lines 243, 341: flip = -1 if (index % 2 == 1) else 1
flip(index) == IF index % 2 = 1 THEN -1 ELSE 1

\* mutant: the parity is that of all the nodes made so far, over every call
alternated_scale_by_nodes(inst_scale, index) ==
    IF loc.alternate_axis = None THEN inst_scale
    ELSE LET axis_index == AXIS_INDICES(loc.alternate_axis)
             base == loc.base_scale_values
         IN  [i \in 1..3 |->
                IF i \in scene.locked THEN inst_scale[i]
                ELSE IF i = axis_index THEN RMul(base[i], I(flip(Len(nodes))))
                ELSE base[i]]

\* lines 241-252, 339-350: the scale of the instance at placement `index`.
\* setAttr raises RuntimeError on an attribute that cannot be set (scene.locked),
\* which the code swallows: that component keeps the value the instance has.
alternated_scale(inst_scale, index) ==
    IF loc.alternate_axis = None THEN inst_scale
    ELSE LET axis_index == AXIS_INDICES(loc.alternate_axis)
             base == loc.base_scale_values
         IN  [i \in 1..3 |->
                IF i \in scene.locked THEN inst_scale[i]
                ELSE IF i = axis_index THEN RMul(base[i], I(flip(index)))
                ELSE base[i]]

\* mutant: the anchor is looked at before the grouping container
instance_parent_anchor_first ==
    IF args.parent_instances_to_parent /\ loc.parent_target # None
    THEN UnderScene(loc.parent_target)
    ELSE IF loc.group_node # 0 THEN UnderNew(loc.group_node)
    ELSE World

\* lines 217-220, 319-322: where the new instance is parented
instance_parent ==
    IF loc.group_node # 0 THEN UnderNew(loc.group_node)
    ELSE IF args.parent_instances_to_parent /\ loc.parent_target # None
    THEN UnderScene(loc.parent_target)
    ELSE World

\* line 316: pos = p_pos + (c_pos - p_pos) * t
interp_pos(t) ==
    [i \in 1..3 |->
        RAdd(loc.p_pos[i], RMul(RSub(loc.c_pos[i], loc.p_pos[i]), t))]

\* lines 224-239, 326-337: the rotation given to the instance
oriented(aim_node, aim_at) ==
    IF args.orient = "copy"
    THEN [mode |-> "copy", node |-> loc.child, at |-> Zero3]
    ELSE IF args.orient = "aim"
    THEN [mode |-> "aim", node |-> aim_node, at |-> aim_at]
    ELSE [mode |-> "template", node |-> loc.child, at |-> Zero3]

\* the instance cmds.instance(child) makes, after parenting, placing, orienting
\* and scaling
placed_instance(pos, rot, index) ==
    [kind |-> "instance", of |-> loc.child, parent |-> instance_parent,
     pos |-> pos, rot |-> rot,
     scale |-> alternated_scale(scene.scale[loc.child], index), alive |-> TRUE]

\* a temporary aim constraint: created, used, deleted (lines 232-239, 330-337)
used_constraint == [NewNode("aimConstraint", None) EXCEPT !.alive = FALSE]

place_log ==
    <<"instance">>
    \o (IF instance_parent # World THEN <<"parent">> ELSE <<>>)
    \o <<"set_t">>
    \o (IF args.orient = "copy" THEN <<"query_ro", "set_ro">> ELSE <<>>)

scale_log == IF loc.alternate_axis # None THEN <<"setAttr">> ELSE <<>>

\* the instance as an exception leaves it: made and parented, placed unless it
\* was the placing xform that raised, neither oriented nor scaled
interrupted_instance(pos) ==
    [NewNode("instance", loc.child) EXCEPT
        !.parent = instance_parent,
        !.pos = IF Raises("xform") THEN Zero3 ELSE pos,
        !.scale = scene.scale[loc.child]]

\* the placement at hand ends in an exception of the host
place_raises ==
    Raises("xform") \/ (args.orient = "aim" /\ Raises("aimConstraint"))

interrupted_log ==
    <<"instance">>
    \o (IF instance_parent # World THEN <<"parent">> ELSE <<>>)
    \o <<"set_t">>

\* lines 314-354: one turn of the placement loop (the last one returns); an
\* exception of the host leaves the function at once (no handler)
linear_place ==
    /\ pc = "place"
    /\ LET index == Len(created)
           t == steps[index + 1]
           inst == placed_instance(interp_pos(t),
                                   oriented(loc.child, scene.pos[loc.child]),
                                   index)
       IN  IF place_raises
           THEN /\ nodes' = Append(nodes, interrupted_instance(interp_pos(t)))
                /\ log' = log \o interrupted_log
                     \o (IF Raises("xform") THEN <<>> ELSE <<"aimConstraint">>)
                /\ pc' = "failed"
                /\ error' = "RuntimeError"
                /\ UNCHANGED created
           ELSE /\ nodes' = nodes \o <<inst>>
                       \o (IF args.orient = "aim" THEN <<used_constraint>>
                           ELSE <<>>)
                /\ created' = Append(created, Len(nodes) + 1)
                /\ pc' = IF index + 1 = Len(steps) THEN "returned" ELSE "place"
                /\ log' = log \o place_log
                     \o (IF args.orient = "aim"
                         THEN <<"aimConstraint", "delete">> ELSE <<>>)
                     \o scale_log
                /\ UNCHANGED error
    /\ UNCHANGED <<prior, scene, args, loc, steps, warnings>>

\* lines 183-205 of bounding-box count mode
count_outcome ==
    LET info == compute_bbox_axis_info(loc.child, args.bbox_axis)
        count_value == IF args.count.v < 0 THEN 0 ELSE args.count.v
        multipliers ==
            [i \in 1..(count_value + (IF args.include_end THEN 1 ELSE 0))
                |-> I(i)]
    IN  IF ~info.ok THEN Outcome(TRUE, "bbox_failed", "", <<>>)
        ELSE IF RLe(info.spacing, Eps) \/ ~info.has_dir
        THEN Outcome(TRUE, "bbox_zero", "", <<>>)
        ELSE IF ~args.count.ok
        THEN Outcome(TRUE, "count_not_int", "", <<>>)
        ELSE IF multipliers = <<>>
        THEN Outcome(TRUE, "count_lt_1", "", <<>>)
        ELSE Outcome(FALSE, "", "", multipliers)

count_steps ==
    /\ pc = "count_steps"
    /\ LET o == count_outcome
           info == compute_bbox_axis_info(loc.child, args.bbox_axis)
       IN  /\ steps' = o.steps
           /\ warnings' = IF o.warn # "" THEN Append(warnings, o.warn)
                          ELSE warnings
           /\ pc' = IF o.ret THEN "returned" ELSE "count_place"
           /\ loc' = IF o.ret THEN loc
                     ELSE [loc EXCEPT !.spacing_value = info.spacing,
                                      !.direction = info.direction]
    /\ log' = log \o <<"query_bb">>
    /\ UNCHANGED <<prior, scene, args, nodes, created, error>>

\* lines 211-214: pos = c_pos + direction * spacing_value * step
count_pos(step) ==
    [i \in 1..3 |->
        RAdd(loc.c_pos[i],
             RMul(RMul(loc.direction[i], loc.spacing_value), step))]

\* lines 210-254: one turn of the count-mode loop; an exception of the host
\* goes through the finally clause
count_place ==
    /\ pc = "count_place"
    /\ LET index == Len(created)
           step == steps[index + 1]
           pos == count_pos(step)
           target_pos == vec_add(pos, loc.direction)
           aim == args.orient = "aim"
           new_helper == aim /\ loc.aim_helper = 0 /\ ~Raises("xform")
           inst == placed_instance(pos, oriented("aim_helper", target_pos),
                                   index)
       IN  /\ loc' = IF new_helper
                     THEN [loc EXCEPT !.aim_helper = Len(nodes) + 2]
                     ELSE loc
           /\ IF place_raises
              THEN /\ nodes' = nodes \o <<interrupted_instance(pos)>>
                        \o (IF new_helper THEN <<NewNode("locator", None)>>
                            ELSE <<>>)
                   /\ log' = log \o interrupted_log
                        \o (IF new_helper THEN <<"spaceLocator">> ELSE <<>>)
                        \o (IF Raises("xform") THEN <<>>
                            ELSE <<"set_t", "aimConstraint">>)
                   /\ pc' = "count_finally"
                   /\ error' = "RuntimeError"
                   /\ UNCHANGED created
              ELSE /\ nodes' = nodes \o <<inst>>
                        \o (IF new_helper THEN <<NewNode("locator", None)>>
                            ELSE <<>>)
                        \o (IF aim THEN <<used_constraint>> ELSE <<>>)
                   /\ created' = Append(created, Len(nodes) + 1)
                   /\ log' = log \o place_log
                        \o (IF new_helper THEN <<"spaceLocator">> ELSE <<>>)
                        \o (IF aim THEN <<"set_t", "aimConstraint", "delete">>
                            ELSE <<>>)
                        \o scale_log
                   /\ pc' = IF index + 1 = Len(steps) THEN "count_finally"
                            ELSE "count_place"
                   /\ UNCHANGED error
    /\ UNCHANGED <<prior, scene, args, steps, warnings>>

\* mutant: the finally clause leaves the helper in the scene
finally_keeps(ns, aim_helper) == ns

\* lines 256-258: if aim_helper and cmds.objExists(aim_helper): cmds.delete(...)
finally_deletes(ns, aim_helper) ==
    IF aim_helper # 0 THEN [ns EXCEPT ![aim_helper].alive = FALSE] ELSE ns

\* lines 255-259: finally: delete the aim helper; then return created, or let
\* the exception go on to the caller
count_finally ==
    /\ pc = "count_finally"
    /\ nodes' = finally_deletes(nodes, loc.aim_helper)
    /\ log' = log \o (IF loc.aim_helper # 0 THEN <<"delete">> ELSE <<>>)
    /\ pc' = IF error # "" THEN "failed" ELSE "returned"
    /\ UNCHANGED <<prior, scene, args, loc, steps, created, warnings, error>>

NextLinear ==
    \/ linear_resolve
    \/ linear_prepare
    \/ linear_steps
    \/ linear_place
    \/ count_steps
    \/ count_place
    \/ count_finally

-----------------------------------------------------------------------------
(* Inputs of the linear placer: scenes and argument lists                  *)

MaxCount == 4

MaxWalk == 8

UnitBox == [ok |-> TRUE, min |-> <<Q(-1, 2), Q(-1, 2), Q(-1, 2)>>,
            max |-> <<Q(1, 2), Q(1, 2), Q(1, 2)>>]

\* a world matrix as xform(q, ws, matrix) returns it: 16 numbers, row by row
Matrix(r1, r2, r3) ==
    <<I(r1[1]), I(r1[2]), I(r1[3]), I(0), I(r2[1]), I(r2[2]), I(r2[3]), I(0),
      I(r3[1]), I(r3[2]), I(r3[3]), I(0), I(0), I(0), I(0), I(1)>>

Identity == Matrix(<<1, 0, 0>>, <<0, 1, 0>>, <<0, 0, 1>>)

\* parent anchor "P" at the origin, child "C" (the template) under "G"
Scene0 ==
    [sel |-> <<"P", "C">>,
     exists |-> {"P", "C", "G"},
     pos |-> [P |-> Zero3, C |-> V(4, 0, 0), G |-> Zero3],
     parentOf |-> [P |-> None, C |-> "G", G |-> None],
     scale |-> [P |-> V(1, 1, 1), C |-> V(2, -3, 5), G |-> V(1, 1, 1)],
     locked |-> {},
     bbox |-> [P |-> UnitBox, C |-> UnitBox, G |-> UnitBox],
     matrix |-> [P |-> Identity, C |-> Identity, G |-> Identity],
     raises |-> NoRaise]

\* the defaults of the signature (lines 72-86), anchors given explicitly
Args0 ==
    [parent |-> "P", child |-> "C", count |-> [ok |-> TRUE, v |-> 5],
     include_end |-> FALSE, orient |-> "none",
     parent_instances_to_parent |-> TRUE, group_name |-> None,
     spacing |-> [k |-> "None", v |-> I(0)], use_bbox_spacing |-> FALSE,
     bbox_axis |-> "x", alternate_scale |-> FALSE,
     alternate_scale_axis |-> "x", bbox_count_mode |-> FALSE]

Input(a, s) == [args |-> a, scene |-> s]

IntCount(n) == [ok |-> TRUE, v |-> n]

Num(q) == [k |-> "num", v |-> q]

AltChoices == {<<FALSE, "x">>, <<TRUE, "x">>, <<TRUE, "Y">>, <<TRUE, "z">>,
               <<TRUE, "w">>}

ChildPositions == {V(4, 0, 0), V(1, 2, -3), Zero3}

\* FixedCount(n), with alternating scale, grouping and unsettable attributes
FixedCountInputs ==
    {Input([Args0 EXCEPT !.count = IntCount(n), !.include_end = e,
                         !.alternate_scale = alt[1],
                         !.alternate_scale_axis = alt[2],
                         !.group_name = g],
           [Scene0 EXCEPT !.pos.C = c, !.locked = lk]) :
        n \in 0..MaxCount, e \in BOOLEAN, alt \in AltChoices,
        g \in {None, ""}, c \in ChildPositions, lk \in {{}, {1}}}

\* orientation and parenting options
OrientInputs ==
    {Input([Args0 EXCEPT !.count = IntCount(n), !.orient = o,
                         !.parent_instances_to_parent = pip,
                         !.group_name = g, !.use_bbox_spacing = cm,
                         !.bbox_count_mode = cm],
           Scene0) :
        n \in 1..2, o \in {"none", "aim", "copy"}, pip \in BOOLEAN,
        g \in {None, "grp"}, cm \in BOOLEAN}

SpacingValues ==
    {Q(5, 2), I(2), Q(1, 2), I(1), I(5), Q(3, 2 * EpsDen), Q(1, 2 * EpsDen),
     I(0), I(-1)}

ChildFar ==
    {V(10, 0, 0), V(4, 0, 0), V(0, 1, 0), V(3, 4, 0), V(0, -6, 8),
     <<Q(2 * EpsDen + 1, 2 * EpsDen), I(0), I(0)>>,
     <<Q(EpsDen + 2, EpsDen), I(0), I(0)>>,
     <<Q(10 * EpsDen - 1, EpsDen), I(0), I(0)>>,
     <<I(0), I(0), Q(5, EpsDen)>>,
     <<I(0), I(0), Q(13, 4 * EpsDen)>>}

\* coincident anchors: at most 1e-6 apart
ChildNear ==
    {Zero3, <<Q(3, 4 * EpsDen), I(0), I(0)>>, <<I(0), Q(-1, 2 * EpsDen), I(0)>>}

\* the walk of FixedSpacing is bounded: at most MaxWalk steps fit
Walkable(d, c) == RLe(d, I(0)) \/ RLe(vec_len(c), RMul(d, I(MaxWalk)))

\* FixedSpacing(d) over anchors D apart (the parent is at the origin)
FixedSpacingInputs ==
    {Input([Args0 EXCEPT !.spacing = Num(in[1]), !.include_end = in[3],
                         !.count = IntCount(in[4])],
           [Scene0 EXCEPT !.pos.C = in[2]]) :
        in \in {x \in SpacingValues \X (ChildFar \cup ChildNear) \X BOOLEAN
                       \X {0, 5} : Walkable(x[1], x[2])}}

Boxes ==
    {UnitBox,
     [UnitBox EXCEPT !.min = <<I(-1), I(0), I(0)>>, !.max = <<I(1), I(3), I(0)>>],
     [UnitBox EXCEPT !.min = <<I(0), I(0), I(0)>>,
                     !.max = <<Q(1, EpsDen), I(1), I(1)>>],
     [UnitBox EXCEPT !.ok = FALSE]}

Matrices ==
    {Identity,
     Matrix(<<3, 4, 0>>, <<-4, 3, 0>>, <<0, 0, 2>>),
     Matrix(<<0, 0, 0>>, <<0, 1, 0>>, <<0, 0, 1>>),
     Matrix(<<0, 0, 0>>, <<-1, 0, 0>>, <<0, 0, 1>>)}

BadCount == [ok |-> FALSE, v |-> 0]

\* BoundingBoxCount(axis, n): steps outward from the child
CountModeInputs ==
    {Input([Args0 EXCEPT !.use_bbox_spacing = TRUE, !.bbox_count_mode = in[1],
                         !.parent = IF in[1] THEN "P" ELSE None,
                         !.count = in[2], !.include_end = in[3],
                         !.bbox_axis = in[4]],
           [Scene0 EXCEPT !.sel = <<"C">>, !.bbox.C = in[5],
                          !.matrix.C = in[6]]) :
        in \in BOOLEAN
               \X ({IntCount(n) : n \in -1..MaxCount} \cup {BadCount})
               \X BOOLEAN \X {"x", "Y", "q"} \X Boxes \X Matrices}

\* count mode with alternating scale, orientation and grouping
CountModeOptionInputs ==
    {Input([Args0 EXCEPT !.use_bbox_spacing = TRUE, !.bbox_count_mode = TRUE,
                         !.count = IntCount(in[1]),
                         !.alternate_scale = in[2][1],
                         !.alternate_scale_axis = in[2][2],
                         !.orient = in[3], !.group_name = in[4]],
           [Scene0 EXCEPT !.locked = in[5]]) :
        in \in {1, MaxCount} \X AltChoices \X {"none", "aim", "copy"}
               \X {None, "grp"} \X {{}, {1}}}

\* BoundingBoxSpacing(axis): the walk of FixedSpacing at the child's own size
BBoxSpacingInputs ==
    {Input([Args0 EXCEPT !.use_bbox_spacing = TRUE, !.bbox_axis = in[1],
                         !.include_end = in[4], !.spacing = in[5]],
           [Scene0 EXCEPT !.bbox.C = in[2], !.matrix.C = in[3]]) :
        in \in {"x", "y"} \X Boxes \X Matrices \X BOOLEAN
               \X {[k |-> "None", v |-> I(0)], Num(I(1)), [k |-> "bad", v |-> I(0)]}}

\* anchors from arguments or selection, present or not
ResolveInputs ==
    {Input([Args0 EXCEPT !.parent = in[1], !.child = in[2],
                         !.use_bbox_spacing = in[4], !.bbox_count_mode = in[5],
                         !.count = in[6]],
           [Scene0 EXCEPT !.sel = in[3]]) :
        in \in {None, "P", "ghost"} \X {None, "C", "ghost"}
               \X {<<>>, <<"P">>, <<"P", "C">>, <<"C", "P">>}
               \X BOOLEAN \X BOOLEAN \X {IntCount(1), BadCount}}

\* anchors that do not resolve, in a call that asks for a grouping container
GroupedResolveInputs ==
    {Input([Args0 EXCEPT !.parent = in[1], !.child = in[2],
                         !.group_name = "grp"],
           [Scene0 EXCEPT !.sel = in[3]]) :
        in \in {None, "P", "ghost"} \X {None, "C", "ghost"}
               \X {<<>>, <<"C">>}}

\* unparsable spacing
BadSpacingInputs ==
    {Input([Args0 EXCEPT !.spacing = [k |-> "bad", v |-> I(0)],
                         !.include_end = e, !.group_name = g],
           Scene0) : e \in BOOLEAN, g \in {None, "grp"}}

\* a host command that raises at the first or the second placement
HostRaises ==
    {[cmd |-> c, at |-> i] : c \in {"xform", "aimConstraint"}, i \in 1..2}

\* placements the host interrupts, in both loops of the linear placer
LinearRaiseInputs ==
    {Input([Args0 EXCEPT !.count = IntCount(2), !.orient = o,
                         !.group_name = g, !.use_bbox_spacing = cm,
                         !.bbox_count_mode = cm],
           [Scene0 EXCEPT !.raises = r]) :
        o \in {"none", "aim", "copy"}, g \in {None, "grp"}, cm \in BOOLEAN,
        r \in HostRaises}

\* parameters of a variant that is not the one in force: a spacing and a count
\* under the bounding-box variants, a count under fixed spacing
PrecedenceInputs ==
    {Input([Args0 EXCEPT !.use_bbox_spacing = in[1][1],
                         !.bbox_count_mode = in[1][2],
                         !.spacing = in[2][1], !.count = in[2][2],
                         !.include_end = in[3]],
           Scene0) :
        in \in {<<TRUE, FALSE>>, <<TRUE, TRUE>>, <<FALSE, FALSE>>}
               \X {<<Num(I(2)), IntCount(0)>>, <<Num(I(2)), IntCount(-1)>>,
                    <<Num(I(2)), BadCount>>, <<Num(I(2)), IntCount(2)>>,
                    <<Num(I(-1)), IntCount(2)>>,
                    <<[k |-> "bad", v |-> I(0)], IntCount(2)>>}
               \X BOOLEAN}

LinearInputs ==
    PrecedenceInputs \cup FixedCountInputs \cup OrientInputs \cup FixedSpacingInputs
    \cup CountModeInputs \cup CountModeOptionInputs \cup BBoxSpacingInputs
    \cup ResolveInputs \cup GroupedResolveInputs
    \cup BadSpacingInputs

InitCall(in, entry, locals) ==
    /\ scene = in.scene
    /\ args = in.args
    /\ pc = entry
    /\ loc = locals
    /\ steps = <<>>
    /\ nodes = <<>>
    /\ created = <<>>
    /\ warnings = <<>>
    /\ error = ""
    /\ log = <<>>
    /\ prior = <<>>

InitLinear == \E in \in LinearInputs : InitCall(in, "linear", LocInit)

SpecLinear == InitLinear /\ [][NextLinear]_vars

-----------------------------------------------------------------------------
(* Properties of the linear placer                                         *)

AnchorP == scene.pos[loc.parent]

AnchorC == scene.pos[loc.child]

ResolveErrors == {"child", "parent", "anchors"}

FixedCountMode ==
    ~args.use_bbox_spacing /\ args.spacing.k = "None" /\ args.count.ok

FixedSpacingMode ==
    /\ ~args.use_bbox_spacing
    /\ args.spacing.k = "num"
    /\ RLt(I(0), args.spacing.v)

EndSteps == IF args.include_end THEN 1 ELSE 0

\* parent + (child - parent) * t
Between(t) == vec_add(AnchorP, vec_mul(vec_sub(AnchorC, AnchorP), t))

\* the returned list names exactly the instances made, one per step, in order
OnePerStep ==
    /\ Len(created) = Len(steps)
    /\ Made("instance") = {created[k] : k \in 1..Len(created)}
    /\ Cardinality(Made("instance")) = Len(steps)

\* C1: in FixedCount mode with count n >= 1 and resolved anchors the call
\* returns; the parametric positions are i/(n+1) for i = 1..n, in that order,
\* strictly increasing and strictly between 0 and 1; include_end appends
\* exactly one position 1.0 last; one instance is made per position, at
\* parent + (child - parent) * t; so n instances, or n + 1 with include_end.
C1_FixedCount ==
    (FixedCountMode /\ args.count.v >= 1) =>
        /\ pc = "failed" => error \in ResolveErrors
        /\ pc = "returned" =>
            LET n == args.count.v
            IN  /\ Len(steps) = n + EndSteps
                /\ \A i \in 1..n :
                       /\ RMul(steps[i], I(n + 1)) = I(i)
                       /\ RLt(I(0), steps[i]) /\ RLt(steps[i], I(1))
                /\ \A i \in 1..(n - 1) : RLt(steps[i], steps[i + 1])
                /\ args.include_end => steps[n + 1] = I(1)
                /\ OnePerStep
                /\ \A k \in 1..Len(steps) :
                       nodes[created[k]].pos = Between(steps[k])

C1_Witness ==
    /\ pc = "returned" /\ FixedCountMode
    /\ args.count.v = 3 /\ args.include_end
    /\ Len(created) = 4
    /\ AnchorC # AnchorP
    /\ nodes[created[4]].pos = AnchorC

TotalDist == vec_len(vec_sub(AnchorC, AnchorP))

\* steps before the one include_end appends
Interior == Len(steps) - (IF steps # <<>> THEN EndSteps ELSE 0)

NearInteger(r) ==
    \/ RLe(RSub(r, I(RFloor(r))), Eps)
    \/ RLe(RSub(I(RFloor(r) + 1), r), Eps)

StepsAtMultiples ==
    \A k \in 1..Interior :
        /\ RMul(steps[k], TotalDist) = RMul(I(k), args.spacing.v)
        /\ RLt(RMul(I(k), args.spacing.v), TotalDist)

EndOnlyIfAsked ==
    /\ args.include_end => steps[Len(steps)] = I(1)
    /\ \A k \in 1..Interior : steps[k] # I(1)

\* C2 as stated: with d > 0 and D > 1e-6 the number of interior steps is
\* floor(D/d) unless D/d is within 1e-6 of an integer, and then one fewer;
\* the steps are at distances d, 2d, ... strictly before the far end, and no
\* step is at distance D unless include_end is set.  ("One fewer" is read as
\* never going below zero steps.)
C2_AsStated ==
    (pc = "returned" /\ FixedSpacingMode /\ RLt(Eps, TotalDist)) =>
        LET r == RDiv(TotalDist, args.spacing.v)
            fewer == IF RFloor(r) >= 1 THEN RFloor(r) - 1 ELSE 0
        IN  /\ Interior = IF NearInteger(r) THEN fewer ELSE RFloor(r)
            /\ StepsAtMultiples
            /\ EndOnlyIfAsked

\* C2 amended: the interior steps are the multiples k*d, k >= 1, with
\* k*d < D - 1e-6, all of them: their number is floor(D/d) when the remainder
\* D - floor(D/d)*d exceeds 1e-6 (a D/d just below an integer loses no step)
\* and, for d > 1e-6, one fewer when the remainder is at most 1e-6; no step
\* is at distance D unless include_end is set; one instance per step.
C2_SpacingSteps ==
    (pc = "returned" /\ FixedSpacingMode /\ RLt(Eps, TotalDist)) =>
        LET d == args.spacing.v
            r == RDiv(TotalDist, d)
            rest == RSub(TotalDist, RMul(I(RFloor(r)), d))
            limit == RSub(TotalDist, Eps)
        IN  /\ StepsAtMultiples
            /\ \A k \in 1..Interior : RLt(RMul(I(k), d), limit)
            /\ ~RLt(RMul(I(Interior + 1), d), limit)
            /\ RLt(Eps, rest) => Interior = RFloor(r)
            /\ (RLe(rest, Eps) /\ RLt(Eps, d)) => Interior = RFloor(r) - 1
            /\ EndOnlyIfAsked
            /\ steps # <<>> => OnePerStep

C2_Witness ==
    /\ pc = "returned" /\ FixedSpacingMode /\ ~args.include_end
    /\ TotalDist = I(10) /\ args.spacing.v = Q(5, 2)
    /\ Len(created) = 3
    /\ nodes[created[3]].pos = <<Q(15, 2), I(0), I(0)>>

\* C3: in FixedSpacing mode with coincident anchors (distance <= 1e-6) the
\* call does not fail; without include_end it returns an empty list after a
\* warning and makes no instance; with include_end it makes exactly one
\* instance, at parametric position 1.0.
C3_Coincident ==
    (FixedSpacingMode /\ pc \in {"returned", "failed"}
     /\ error \notin ResolveErrors /\ RLe(TotalDist, Eps)) =>
        /\ pc = "returned" /\ error = ""
        /\ ~args.include_end =>
               /\ created = <<>>
               /\ Made("instance") = {}
               /\ warnings # <<>>
        /\ args.include_end =>
               /\ steps = <<I(1)>>
               /\ OnePerStep
               /\ nodes[created[1]].pos = Between(I(1))
               /\ nodes[created[1]].pos = AnchorC

C3_Witness ==
    /\ pc = "returned" /\ FixedSpacingMode /\ ~args.include_end
    /\ RLe(TotalDist, Eps) /\ TotalDist # I(0)
    /\ created = <<>> /\ warnings = <<"same_position">>

AlternateOn ==
    args.alternate_scale /\ Lower(args.alternate_scale_axis) \in AxisNames

AlternateAxis == AXIS_INDICES(Lower(args.alternate_scale_axis))

TemplateScale == scene.scale[loc.child]

\* the scale the claim gives placement index k (0-based) on axis j
ClaimedScale(k, j) ==
    IF j = AlternateAxis /\ k % 2 = 1 THEN RNeg(TemplateScale[j])
    ELSE TemplateScale[j]

\* C7 as stated: with alternating scale on axis a the instance at 0-based
\* placement index k has the template's scale on the other axes and, on a,
\* the template's value for even k and its negation for odd k, in the
\* interpolation modes and in bounding-box count mode.
C7_AsStated ==
    AlternateOn =>
        \A k \in 1..Len(created) : \A j \in 1..3 :
            nodes[created[k]].scale[j] = ClaimedScale(k - 1, j)

\* C7 amended: the same for every scale attribute that can be set on the
\* instance; an attribute whose setAttr fails (the failure is swallowed) keeps
\* the template's value at every index.
C7_AlternateScale ==
    AlternateOn =>
        \A k \in 1..Len(created) : \A j \in 1..3 :
            nodes[created[k]].scale[j] =
                IF j \in scene.locked THEN TemplateScale[j]
                ELSE ClaimedScale(k - 1, j)

C7_Witness ==
    /\ pc = "returned" /\ AlternateOn /\ AlternateAxis = 1
    /\ loc.count_mode /\ scene.locked = {}
    /\ Len(created) = 4
    /\ nodes[created[1]].scale = V(2, -3, 5)
    /\ nodes[created[2]].scale = V(-2, -3, 5)
    /\ nodes[created[4]].scale = V(-2, -3, 5)

-----------------------------------------------------------------------------
(* instanceChain.py: vector kernel and _max_dist_pair                      *)

\* _norm: a / |a| if |a| > 1e-12 else [0, 0, 0].  Every positive rational the
\* model can hold (denominator below 2^31) exceeds 1e-12, so the test is L > 0.
norm(a) ==
    LET L == vec_len(a)
    IN  IF RLt(I(0), L) THEN vec_mul(a, RInv(L)) ELSE Zero3

\* mutant: a later pair of equal distance replaces the one found first
RECURSIVE scan_pairs_last(_, _, _, _, _)
scan_pairs_last(points, i, j, maxd, pair) ==
    IF i > Len(points) THEN pair
    ELSE IF j > Len(points) THEN scan_pairs_last(points, i + 1, i + 2, maxd, pair)
    ELSE LET d == vec_len(vec_sub(points[i], points[j]))
         IN  IF RLe(maxd, d)
             THEN scan_pairs_last(points, i, j + 1, d, <<i, j>>)
             ELSE scan_pairs_last(points, i, j + 1, maxd, pair)

\* lines 59-66: for i in range(n): for j in range(i+1, n): if d > maxd: ...
RECURSIVE scan_pairs(_, _, _, _, _)
scan_pairs(points, i, j, maxd, pair) ==
    IF i > Len(points) THEN pair
    ELSE IF j > Len(points) THEN scan_pairs(points, i + 1, i + 2, maxd, pair)
    ELSE LET d == vec_len(vec_sub(points[i], points[j]))
         IN  IF RLt(maxd, d)
             THEN scan_pairs(points, i, j + 1, d, <<i, j>>)
             ELSE scan_pairs(points, i, j + 1, maxd, pair)

\* mutant: the first two points are taken for the ends
max_dist_pair_first_two(points) == <<1, 2>>

\* _max_dist_pair: maxd = -1.0, pair = (0, 0); indexes are 1-based here, so
\* the initial pair is <<1, 1>>
max_dist_pair(points) == scan_pairs(points, 1, 2, I(-1), <<1, 1>>)

-----------------------------------------------------------------------------
(* instanceChain.py: instance_between_chain, resolution and ordering       *)

LocChain ==
    [template |-> None, targets |-> <<>>, pts |-> <<>>, iA |-> 0, iB |-> 0,
     A |-> Zero3, B |-> Zero3, dirAB |-> Zero3, order |-> <<>>,
     ordered_nodes |-> <<>>, ordered_pts |-> <<>>, group_node |-> 0,
     use_spacing |-> FALSE, spacing_value |-> I(0),
     fill_divisions_value |-> 1, alternate_axis_index |-> 0,
     box_template |-> [node |-> 0, parent |-> World],
     global_index |-> 0, k |-> 0, t_index |-> 0]

\* line 120
chain_from_selection ==
    ~args.fill_boxes /\ (args.template = None \/ ~args.targets.given)

\* line 123: template or sel[0]
chain_template ==
    IF chain_from_selection /\ args.template = None THEN scene.sel[1]
    ELSE args.template

\* lines 118, 124: sel in fill mode; targets or sel[1:] otherwise
chain_targets ==
    IF args.fill_boxes
    THEN IF args.targets.given THEN args.targets.list ELSE scene.sel
    ELSE IF chain_from_selection
              /\ (~args.targets.given \/ args.targets.list = <<>>)
         THEN Tail(scene.sel)
         ELSE args.targets.list

Exists(t) == t \in scene.exists

\* mutant: targets that are not in the scene are kept
unfiltered_targets == chain_targets

\* line 128
existing_targets == SelectSeq(chain_targets, Exists)

\* lines 114-130: the fatal errors of resolution ("" when none)
chain_resolve_error ==
    IF args.fill_boxes /\ ~args.targets.given /\ Len(scene.sel) < 2
    THEN "select_targets"
    ELSE IF chain_from_selection /\ Len(scene.sel) < 3
    THEN "select_template_targets"
    ELSE IF ~args.fill_boxes /\ ~Exists(chain_template)
    THEN "template"
    ELSE IF Len(existing_targets) < 2
    THEN "targets"
    ELSE ""

chain_resolve ==
    /\ pc = "chain"
    /\ log' = log \o <<"ls", "objExists">>
    /\ IF chain_resolve_error # ""
       THEN /\ pc' = "failed"
            /\ error' = chain_resolve_error
            /\ UNCHANGED loc
       ELSE /\ pc' = "order"
            /\ loc' = [loc EXCEPT !.template = chain_template,
                                  !.targets = existing_targets]
            /\ UNCHANGED error
    /\ UNCHANGED <<prior, scene, args, steps, nodes, created, warnings>>

\* mutant: the direction runs from B back to A
chain_direction_reversed(A, B) == norm(vec_sub(A, B))

\* line 138: dirAB = _norm(_vec_sub(B, A))
chain_direction(A, B) == norm(vec_sub(B, A))

\* line 140, the sort key: _dot(_vec_sub(pts[i], A), dirAB)
projection_keys(pts, A, dirAB) ==
    [i \in 1..Len(pts) |-> dot(vec_sub(pts[i], A), dirAB)]

\* mutant: an index whose key equals one already placed is dropped
RECURSIVE insert_unique(_, _, _)
insert_unique(s, i, key) ==
    IF s = <<>> THEN <<i>>
    ELSE IF key[i] = key[Head(s)] THEN s
    ELSE IF RLt(key[i], key[Head(s)]) THEN <<i>> \o s
    ELSE <<Head(s)>> \o insert_unique(Tail(s), i, key)

\* sorted() is stable: an index goes behind every index already placed whose
\* key is not greater
RECURSIVE insert(_, _, _)
insert(s, i, key) ==
    IF s = <<>> THEN <<i>>
    ELSE IF RLt(key[i], key[Head(s)]) THEN <<i>> \o s
    ELSE <<Head(s)>> \o insert(Tail(s), i, key)

RECURSIVE sorted_upto(_, _)
sorted_upto(m, key) ==
    IF m = 0 THEN <<>> ELSE insert(sorted_upto(m - 1, key), m, key)

\* mutant: the indexes are placed from the last to the first, so that of two
\* equal keys the later index comes first
RECURSIVE sorted_from(_, _)
sorted_from(m, key) ==
    IF m > Len(key) THEN <<>> ELSE insert(sorted_from(m + 1, key), m, key)

sorted_indices_unstable(key) == sorted_from(1, key)

\* line 140: sorted(range(len(targets)), key=...)
sorted_indices(key) == sorted_upto(Len(key), key)

\* lines 133-142
chain_order ==
    /\ pc = "order"
    /\ \E pts \in {[i \in 1..Len(loc.targets) |-> scene.pos[loc.targets[i]]]} :
       \E pair \in {max_dist_pair(pts)} :
       \E A \in {pts[pair[1]]} : \E B \in {pts[pair[2]]} :
       \E dirAB \in {chain_direction(A, B)} :
       \E order \in {sorted_indices(projection_keys(pts, A, dirAB))} :
           loc' = [loc EXCEPT
                      !.pts = pts, !.iA = pair[1], !.iB = pair[2],
                      !.A = A, !.B = B, !.dirAB = dirAB, !.order = order,
                      !.ordered_nodes =
                          [r \in 1..Len(order) |-> loc.targets[order[r]]],
                      !.ordered_pts = [r \in 1..Len(order) |-> pts[order[r]]]]
    /\ pc' = "chain_prepare"
    /\ log' = log \o <<"xform_q_translation">>
    /\ UNCHANGED <<prior, scene, args, steps, nodes, created, warnings, error>>

NextOrder == chain_resolve \/ chain_order

-----------------------------------------------------------------------------
(* instanceChain.py: instance_between_chain, preparation                   *)

IsNodeName(p) == p \notin {None, "", "same"}

\* lines 148-157: where the grouping container goes
chain_group_parent ==
    IF args.parent_instances_to = "same" /\ loc.ordered_nodes # <<>>
    THEN IF scene.parentOf[loc.ordered_nodes[1]] # None
         THEN UnderScene(scene.parentOf[loc.ordered_nodes[1]])
         ELSE World
    ELSE IF IsNodeName(args.parent_instances_to)
            /\ Exists(args.parent_instances_to)
    THEN UnderScene(args.parent_instances_to)
    ELSE World

\* lines 158-171: "" or the diagnostic that ends the call with []
chain_spacing_warning ==
    IF args.fill_boxes \/ args.spacing.k = "None" THEN ""
    ELSE IF args.spacing.k = "bad" THEN "spacing_not_number"
    ELSE IF RLe(args.spacing.v, I(0)) THEN "spacing_not_positive"
    ELSE ""

\* lines 177-183: int(fill_divisions), 1 when unparsable or below 1
fill_divisions_value_of ==
    IF ~args.fill_boxes THEN 1
    ELSE IF ~args.fill_divisions.ok THEN 1
    ELSE IF args.fill_divisions.v < 1 THEN 1
    ELSE args.fill_divisions.v

\* lines 185-187 (0 stands for None, axes are 1-based)
alternate_axis_index_of ==
    LET alt_axis == Lower(IF args.fill_alternate_axis \in {None, ""} THEN "x"
                          ELSE args.fill_alternate_axis)
    IN  IF args.fill_boxes /\ args.fill_alternate_scale /\ alt_axis \in AxisNames
        THEN AXIS_INDICES(alt_axis)
        ELSE 0

\* lines 144-191: grouping container, spacing, fill options
chain_prepare ==
    /\ pc = "chain_prepare"
    /\ LET mk == args.group_name # None
           grp == [NewNode("group", None) EXCEPT !.parent = chain_group_parent]
           stop == chain_spacing_warning
       IN  /\ nodes' = IF mk THEN Append(nodes, grp) ELSE nodes
           /\ log' = log
                \o (IF mk THEN <<"group">> ELSE <<>>)
                \o (IF mk /\ chain_group_parent # World THEN <<"parent">>
                    ELSE <<>>)
           /\ warnings' = IF stop # "" THEN Append(warnings, stop) ELSE warnings
           /\ pc' = IF stop # "" THEN "returned" ELSE "segment"
           /\ loc' = [loc EXCEPT
                  !.group_node = IF mk THEN Len(nodes) + 1 ELSE 0,
                  !.use_spacing = ~args.fill_boxes /\ args.spacing.k = "num"
                                  /\ stop = "",
                  !.spacing_value =
                      IF ~args.fill_boxes /\ args.spacing.k = "num"
                      THEN args.spacing.v ELSE I(0),
                  !.fill_divisions_value = fill_divisions_value_of,
                  !.alternate_axis_index = alternate_axis_index_of,
                  !.k = 1]
    /\ UNCHANGED <<prior, scene, args, steps, created, error>>

-----------------------------------------------------------------------------
(* instanceChain.py: fill-box mode                                         *)

\* _cross
cross(a, b) ==
    <<RSub(RMul(a[2], b[3]), RMul(a[3], b[2])),
      RSub(RMul(a[3], b[1]), RMul(a[1], b[3])),
      RSub(RMul(a[1], b[2]), RMul(a[2], b[1]))>>

Half == Q(1, 2)

\* _world_bbox_data: ok = FALSE stands for None; the corners in the order of
\* the three nested loops
world_bbox_data(node) ==
    LET b == scene.wbbox[node]
        pick(c, i) == IF c = 0 THEN b.min[i] ELSE b.max[i]
    IN  [ok |-> b.ok,
         corners |-> [n \in 1..8 |->
                         <<pick((n - 1) \div 4, 1), pick(((n - 1) \div 2) % 2, 2),
                           pick((n - 1) % 2, 3)>>],
         center |-> [i \in 1..3 |-> RMul(RAdd(b.min[i], b.max[i]), Half)]]

\* _project_range: (min, max) of the projections, (0, 0) for no points
project_range(points, axis, origin) ==
    LET values == {dot(vec_sub(points[i], origin), axis) : i \in 1..Len(points)}
    IN  IF values = {} THEN <<I(0), I(0)>>
        ELSE <<CHOOSE v \in values : \A w \in values : RLe(v, w),
               CHOOSE v \in values : \A w \in values : RLe(w, v)>>

SkipSegment(why) == [skip |-> why]

\* F of the value of e, which is worked out once, before F is
\* (a quantifier over a singleton names a value)
With(e, F(_)) == CHOOSE r \in {F(x) : x \in {e}} : TRUE

\* lines 217-226: the basis across the direction dir_z, as <<dir_x, dir_y>>
fill_basis(dir_z) ==
    LET up_ref == IF RLt(Q(999, 1000), RAbs(dot(dir_z, V(0, 1, 0))))
                  THEN V(1, 0, 0) ELSE V(0, 1, 0)
    IN  With(cross(up_ref, dir_z), LAMBDA dir_x0 :
        With(norm(IF RLt(vec_len(dir_x0), Eps) THEN V(1, 0, 0) ELSE dir_x0),
             LAMBDA dir_x1 :
        With(norm(cross(dir_z, dir_x1)), LAMBDA dir_y :
        With(norm(cross(dir_y, dir_z)), LAMBDA dir_x : <<dir_x, dir_y>>))))

\* lines 228-248: the cross-section of the two boxes in the basis and the
\* offset of its centre
fill_frame(left, right, anchor, dir_z, left_proj_max, gap_total) ==
    LET size(l, r) == RMax(RMax(RAbs(RSub(l[2], l[1])), RAbs(RSub(r[2], r[1]))),
                           Q(1, 1000))
        offset(l, r) == RMul(Half, RAdd(RMul(RAdd(l[1], l[2]), Half),
                                        RMul(RAdd(r[1], r[2]), Half)))
    IN  With(fill_basis(dir_z), LAMBDA basis :
        With(project_range(left.corners, basis[1], anchor), LAMBDA left_x_range :
        With(project_range(right.corners, basis[1], anchor), LAMBDA right_x_range :
        With(project_range(left.corners, basis[2], anchor), LAMBDA left_y_range :
        With(project_range(right.corners, basis[2], anchor), LAMBDA right_y_range :
            [skip |-> "", anchor |-> anchor,
             dir_x |-> basis[1], dir_y |-> basis[2], dir_z |-> dir_z,
             left_proj_max |-> left_proj_max, gap_total |-> gap_total,
             size_x |-> size(left_x_range, right_x_range),
             size_y |-> size(left_y_range, right_y_range),
             center_offset_x |-> offset(left_x_range, right_x_range),
             center_offset_y |-> offset(left_y_range, right_y_range)])))))

\* mutant: only a negative gap is skipped
fill_gap_zero_kept(left, right, anchor, dir_z) ==
    With(project_range(left.corners, dir_z, anchor)[2], LAMBDA left_proj_max :
    With(project_range(right.corners, dir_z, anchor)[1], LAMBDA right_proj_min :
    With(RSub(right_proj_min, left_proj_max), LAMBDA gap_total :
        IF RLt(gap_total, I(0)) THEN SkipSegment("gap")
        ELSE fill_frame(left, right, anchor, dir_z, left_proj_max, gap_total))))

\* lines 209-215: the gap between the two boxes along the direction
fill_gap(left, right, anchor, dir_z) ==
    With(project_range(left.corners, dir_z, anchor)[2], LAMBDA left_proj_max :
    With(project_range(right.corners, dir_z, anchor)[1], LAMBDA right_proj_min :
    With(RSub(right_proj_min, left_proj_max), LAMBDA gap_total :
        IF RLe(gap_total, Eps) THEN SkipSegment("gap")
        ELSE fill_frame(left, right, anchor, dir_z, left_proj_max, gap_total))))

\* lines 197-207: the two boxes and the direction from centre to centre
fill_geometry(left_node, right_node) ==
    With(world_bbox_data(left_node), LAMBDA left :
    With(world_bbox_data(right_node), LAMBDA right :
        IF ~left.ok \/ ~right.ok THEN SkipSegment("bbox")
        ELSE With(vec_sub(right.center, left.center), LAMBDA dir_vec :
             With(vec_len(dir_vec), LAMBDA dir_len :
                 IF RLt(dir_len, Eps) THEN SkipSegment("dir_len")
                 ELSE With(vec_mul(dir_vec, RInv(dir_len)), LAMBDA dir_z :
                          fill_gap(left, right, left.center, dir_z))))))

\* lines 252-253: start = left_proj_max + segment_length * div;
\* mid_scalar = start + segment_length * 0.5
fill_mid_scalar(g, segment_length, div) ==
    RAdd(RAdd(g.left_proj_max, RMul(segment_length, I(div))),
         RMul(segment_length, Half))

\* mutant: the parity of the division within its segment
fill_scale_values_by_division(g, segment_length, global_index) ==
    [j \in 1..3 |->
        LET s == <<g.size_x, g.size_y, segment_length>>[j]
        IN  IF j = loc.alternate_axis_index
               /\ (global_index - loc.global_index) % 2 = 1
            THEN RNeg(s) ELSE s]

\* lines 255-257
fill_scale_values(g, segment_length, global_index) ==
    [j \in 1..3 |->
        LET s == <<g.size_x, g.size_y, segment_length>>[j]
        IN  IF j = loc.alternate_axis_index /\ global_index % 2 = 1
            THEN RNeg(s) ELSE s]

\* lines 282-287: the sixteen numbers handed to xform(ws=True, matrix=...)
fill_matrix(g) ==
    <<g.dir_x[1], g.dir_y[1], g.dir_z[1], I(0),
      g.dir_x[2], g.dir_y[2], g.dir_z[2], I(0),
      g.dir_x[3], g.dir_y[3], g.dir_z[3], I(0),
      I(0), I(0), I(0), I(1)>>

\* lines 290-293
fill_center_pos(g, mid_scalar) ==
    vec_add(vec_add(vec_add(g.anchor, vec_mul(g.dir_x, g.center_offset_x)),
                    vec_mul(g.dir_y, g.center_offset_y)),
            vec_mul(g.dir_z, mid_scalar))

\* lines 266-280: where a box goes
fill_parent(left_node) ==
    IF loc.group_node # 0 THEN UnderNew(loc.group_node)
    ELSE IF args.parent_instances_to = "same"
    THEN IF scene.parentOf[left_node] # None
         THEN UnderScene(scene.parentOf[left_node]) ELSE World
    ELSE IF args.parent_instances_to # None /\ Exists(args.parent_instances_to)
    THEN UnderScene(args.parent_instances_to)
    ELSE World

\* the name of a node of the call: the node and the place it hangs at, which
\* changes when cmds.parent moves the node
NodeName(id, parent) == [node |-> id, parent |-> parent]

\* box_template = None (line 189)
NoTemplate == NodeName(0, World)

\* cmds.instance(name) finds its node iff the node still bears the name
Resolves(name, ns) ==
    name.node \in 1..Len(ns) /\ ns[name.node].parent = name.parent

\* mutant: the name cmds.polyCube returned is kept after the box has moved
template_reference_unparented(id, left_node) == NodeName(id, World)

\* lines 261-262, 268-280: box_template is the polyCube's name, replaced by
\* the name cmds.parent returns when the first box is re-parented
template_reference(id, left_node) == NodeName(id, fill_parent(left_node))

\* lines 259-300: the box of division div (0-based); the first box of the call
\* is the polyCube, every other one an instance of the node box_template
\* names.  setAttr on the scale of a node the call has just made does not fail.
fill_box(g, left_node, segment_length, div, global_index, first, template) ==
    [NewNode(IF first THEN "polyCube" ELSE "instance",
             IF first THEN None ELSE template.node) EXCEPT
        !.parent = fill_parent(left_node),
        !.rot = [mode |-> "matrix", node |-> None, at |-> Zero3,
                 matrix |-> fill_matrix(g)],
        !.pos = fill_center_pos(g, fill_mid_scalar(g, segment_length, div)),
        !.scale = fill_scale_values(g, segment_length, global_index)]

\* lines 193-306: one turn of the loop over the segments in fill-box mode.
\* cmds.instance on a name no node bears raises RuntimeError, which nothing
\* in the function catches.
fill_segment ==
    /\ pc = "segment"
    /\ args.fill_boxes
    /\ loc.k < Len(loc.ordered_nodes)
    /\ \E left_node \in {loc.ordered_nodes[loc.k]} :
       \E g \in {fill_geometry(left_node, loc.ordered_nodes[loc.k + 1])} :
           IF g.skip # ""
           THEN /\ loc' = [loc EXCEPT !.k = loc.k + 1]
                /\ log' = Append(log, "exactWorldBoundingBox")
                /\ UNCHANGED <<nodes, created, pc, error>>
           ELSE \E n \in {loc.fill_divisions_value} :
                \E segment_length \in {RDiv(g.gap_total, I(n))} :
                \E first \in {loc.box_template = NoTemplate} :
                \E template \in {IF first
                                 THEN template_reference(Len(nodes) + 1, left_node)
                                 ELSE loc.box_template} :
                \E boxes \in {[d \in 1..n |->
                                 fill_box(g, left_node, segment_length, d - 1,
                                          loc.global_index + d - 1,
                                          first /\ d = 1, template)]} :
                    IF ~Resolves(template, nodes \o boxes) /\ (~first \/ n > 1)
                    THEN /\ nodes' = nodes \o (IF first THEN <<boxes[1]>> ELSE <<>>)
                         /\ created' = created
                               \o (IF first THEN <<Len(nodes) + 1>> ELSE <<>>)
                         /\ loc' = [loc EXCEPT
                                !.global_index =
                                    loc.global_index + (IF first THEN 1 ELSE 0),
                                !.box_template = template]
                         /\ log' = log \o <<"exactWorldBoundingBox">>
                                \o (IF first
                                    THEN <<"create", "xform_matrix", "xform_t">>
                                    ELSE <<>>)
                         /\ pc' = "failed"
                         /\ error' = "RuntimeError"
                    ELSE /\ nodes' = nodes \o boxes
                         /\ created' = created \o [d \in 1..n |-> Len(nodes) + d]
                         /\ loc' = [loc EXCEPT
                                !.k = loc.k + 1,
                                !.global_index = loc.global_index + n,
                                !.box_template = template]
                         /\ log' = log \o <<"exactWorldBoundingBox">>
                                \o [d \in 1..(3 * n) |->
                                       <<"create", "xform_matrix", "xform_t">>
                                           [((d - 1) % 3) + 1]]
                         /\ UNCHANGED <<pc, error>>
    /\ UNCHANGED <<prior, scene, args, steps, warnings>>

\* lines 364-370: the loop is over; the diagnostics of an empty result
chain_finish ==
    /\ pc = "segment"
    /\ loc.k >= Len(loc.ordered_nodes)
    /\ pc' = "returned"
    /\ warnings' = warnings
         \o (IF loc.use_spacing /\ created = <<>> THEN <<"no_instances">>
             ELSE <<>>)
         \o (IF args.fill_boxes /\ created = <<>> THEN <<"no_boxes">>
             ELSE <<>>)
    /\ UNCHANGED <<prior, scene, args, loc, steps, nodes, created, error, log>>

NextFill ==
    chain_resolve \/ chain_order \/ chain_prepare \/ fill_segment \/ chain_finish

-----------------------------------------------------------------------------
(* instanceChain.py: instance_between_chain, instances between waypoints   *)

\* mutant: the divisor is per_segment instead of per_segment + 1
chain_fractions_over_count(per_segment) ==
    [s \in 1..per_segment |-> Q(s, per_segment)]

\* line 324: [float(s)/(per_segment+1) for s in range(1, per_segment+1)]
chain_fractions(per_segment) == [s \in 1..per_segment |-> Q(s, per_segment + 1)]

\* lines 312-324: the fractions of the segment p0 -> p1 that get an instance
chain_t_values(p0, p1) ==
    LET seg_len == vec_len(vec_sub(p1, p0))
    IN  IF loc.use_spacing
        THEN IF RLt(Eps, seg_len)
             THEN spacing_walk(loc.spacing_value, loc.spacing_value, seg_len)
             ELSE <<>>
        ELSE chain_fractions(args.per_segment.v)

\* lines 308-324: one turn of the loop over the segments, up to its t_values;
\* per_segment + 1 raises TypeError when per_segment is not a number
chain_segment ==
    /\ pc = "segment"
    /\ ~args.fill_boxes
    /\ loc.k < Len(loc.ordered_nodes)
    /\ IF ~loc.use_spacing /\ ~args.per_segment.ok
       THEN /\ pc' = "failed"
            /\ error' = "TypeError"
            /\ UNCHANGED <<loc, steps>>
       ELSE \E t_values \in {chain_t_values(loc.ordered_pts[loc.k],
                                            loc.ordered_pts[loc.k + 1])} :
                /\ steps' = t_values
                /\ pc' = IF t_values = <<>> THEN "segment" ELSE "chain_place"
                /\ loc' = [loc EXCEPT
                              !.k = IF t_values = <<>> THEN loc.k + 1 ELSE loc.k,
                              !.t_index = 0]
                /\ UNCHANGED error
    /\ UNCHANGED <<prior, scene, args, nodes, created, warnings, log>>

\* lines 332-342: where an instance of the segment that starts at left_node goes
chain_parent(left_node) ==
    IF loc.group_node # 0 THEN UnderNew(loc.group_node)
    ELSE IF args.parent_instances_to = "same"
    THEN IF scene.parentOf[left_node] # None
         THEN UnderScene(scene.parentOf[left_node]) ELSE World
    ELSE IF args.parent_instances_to # None /\ Exists(args.parent_instances_to)
    THEN UnderScene(args.parent_instances_to)
    ELSE World

\* line 327: pos = p0 + (p1 - p0) * t
chain_pos(p0, p1, t) == vec_add(p0, vec_mul(vec_sub(p1, p0), t))

\* lines 348-360: the rotation given to the instance
chain_oriented(right_node) ==
    IF args.orient = "copy"
    THEN [mode |-> "copy", node |-> loc.template, at |-> Zero3]
    ELSE IF args.orient = "aim"
    THEN [mode |-> "aim", node |-> right_node, at |-> scene.pos[right_node]]
    ELSE [mode |-> "template", node |-> loc.template, at |-> Zero3]

\* what the commands of lines 329-360 are, in the order they run
chain_place_log(left_node) ==
    <<"instance">>
    \o (IF loc.group_node = 0 /\ args.parent_instances_to = "same"
        THEN <<"listRelatives">> ELSE <<>>)
    \o (IF loc.group_node = 0 /\ IsNodeName(args.parent_instances_to)
        THEN <<"objExists">> ELSE <<>>)
    \o (IF chain_parent(left_node) # World THEN <<"parent">> ELSE <<>>)
    \o <<"set_t">>

\* lines 326-362: one turn of the loop over t_values; an exception of the host
\* leaves the function at once (no handler)
chain_place ==
    /\ pc = "chain_place"
    /\ LET left_node == loc.ordered_nodes[loc.k]
           right_node == loc.ordered_nodes[loc.k + 1]
           pos == chain_pos(loc.ordered_pts[loc.k], loc.ordered_pts[loc.k + 1],
                            steps[loc.t_index + 1])
           aim == args.orient = "aim"
           fail == Raises("xform") \/ (aim /\ Raises("aimConstraint"))
           last == loc.t_index + 1 = Len(steps)
           inst == [NewNode("instance", loc.template) EXCEPT
                       !.parent = chain_parent(left_node),
                       !.pos = IF Raises("xform") THEN Zero3 ELSE pos,
                       !.rot = IF fail THEN @ ELSE chain_oriented(right_node)]
       IN  /\ nodes' = nodes \o <<inst>>
                       \o (IF aim /\ ~fail THEN <<used_constraint>> ELSE <<>>)
           /\ log' = log \o chain_place_log(left_node)
                \o (IF Raises("xform") THEN <<>>
                    ELSE IF args.orient = "copy" THEN <<"query_ro", "set_ro">>
                    ELSE IF aim /\ fail THEN <<"aimConstraint">>
                    ELSE IF aim THEN <<"aimConstraint", "delete">>
                    ELSE <<>>)
           /\ created' = IF fail THEN created ELSE Append(created, Len(nodes) + 1)
           /\ error' = IF fail THEN "RuntimeError" ELSE error
           /\ pc' = IF fail THEN "failed"
                    ELSE IF last THEN "segment" ELSE "chain_place"
           /\ loc' = IF fail THEN loc
                     ELSE IF last
                     THEN [loc EXCEPT !.k = loc.k + 1, !.t_index = 0]
                     ELSE [loc EXCEPT !.t_index = loc.t_index + 1]
    /\ UNCHANGED <<prior, scene, args, steps, warnings>>

NextChain ==
    \/ chain_resolve
    \/ chain_order
    \/ chain_prepare
    \/ chain_segment
    \/ chain_place
    \/ fill_segment
    \/ chain_finish

-----------------------------------------------------------------------------
(* Inputs of the chain calls                                               *)

MaxTargets == 4

WaypointNames == <<"W1", "W2", "W3", "W4", "W5", "W6">>

Waypoints(n) == [i \in 1..n |-> WaypointNames[i]]

ChainNames == {"T", "H"} \cup {WaypointNames[i] : i \in 1..Len(WaypointNames)}

NoBox == [ok |-> FALSE, min |-> Zero3, max |-> Zero3]

\* template T, a host node H with W1 below it, waypoints at the origin
ChainScene0 ==
    [sel |-> <<"T", "W1", "W2">>,
     exists |-> ChainNames,
     pos |-> [n \in ChainNames |-> Zero3],
     parentOf |-> [n \in ChainNames |-> IF n = "W1" THEN "H" ELSE None],
     locked |-> {},
     wbbox |-> [n \in ChainNames |-> NoBox],
     raises |-> NoRaise]

Given(list) == [given |-> TRUE, list |-> list]

NotGiven == [given |-> FALSE, list |-> <<>>]

\* the defaults of the signature, template T
ChainArgs0 ==
    [template |-> "T", targets |-> NotGiven, per_segment |-> IntCount(1),
     parent_instances_to |-> None, orient |-> "none", group_name |-> None,
     spacing |-> [k |-> "None", v |-> I(0)], fill_boxes |-> FALSE,
     fill_divisions |-> IntCount(1), fill_alternate_scale |-> FALSE,
     fill_alternate_axis |-> "x"]

\* waypoints W1..Wn at the points of a list
ScenePoints(points) ==
    [ChainScene0 EXCEPT
        !.pos = [n \in ChainNames |->
                    IF \E i \in 1..Len(points) : WaypointNames[i] = n
                    THEN points[CHOOSE i \in 1..Len(points) :
                                    WaypointNames[i] = n]
                    ELSE Zero3]]

\* points on one line, and the corners of a 3 x 4 rectangle: every distance
\* between two of them is rational
LinePoints == {V(0, 0, 0), V(1, 0, 0), V(2, 0, 0), V(5, 0, 0)}

RectPoints == {V(0, 0, 0), V(3, 0, 0), V(0, 4, 0), V(3, 4, 0)}

\* two ends 8 apart and two points off the line with one projection on it
TiePoints == {V(0, 0, 0), V(8, 0, 0), V(4, 3, 0), V(4, -3, 0)}

PointLists ==
    UNION {[1..n -> LinePoints] \cup [1..n -> RectPoints] \cup [1..n -> TiePoints] :
              n \in 2..MaxTargets}

OrderInputs ==
    {Input([ChainArgs0 EXCEPT !.targets = Given(Waypoints(Len(points)))],
           ScenePoints(points)) : points \in PointLists}

\* template and targets from arguments or selection, present or not
ChainResolveInputs ==
    {Input([ChainArgs0 EXCEPT !.template = in[1], !.targets = in[2],
                              !.fill_boxes = in[4], !.group_name = in[5]],
           [ScenePoints(<<V(2, 0, 0), V(0, 0, 0), V(1, 0, 0)>>)
               EXCEPT !.sel = in[3], !.exists = ChainNames \ {"W6"}]) :
        in \in {None, "T", "ghost"}
               \X {NotGiven, Given(<<>>), Given(<<"W1", "W6">>),
                   Given(<<"W3", "W6", "W1", "W2">>)}
               \X {<<>>, <<"W1", "W2">>, <<"T", "W1", "W2", "W3">>}
               \X BOOLEAN \X {None, "grp"}}

InitOrder ==
    \E in \in OrderInputs \cup ChainResolveInputs : InitCall(in, "chain", LocChain)

SpecOrder == InitOrder /\ [][NextOrder]_vars

MaxDivisions == 3

\* exactWorldBoundingBox of a cube of half-size h centred at c
CubeAt(c, h) ==
    [ok |-> TRUE, min |-> [i \in 1..3 |-> RSub(c[i], h)],
     max |-> [i \in 1..3 |-> RAdd(c[i], h)]]

\* directions of a chain: the three axes and one oblique, of rational length
FillDirections == {V(1, 0, 0), V(0, 1, 0), V(0, 0, 1), V(3, 4, 0)}

\* where the waypoints lie along the direction, in input order
FillLayouts ==
    {<<0, 4>>, <<4, 0>>, <<0, 1>>, <<0, 0>>, <<0, 4, 8>>, <<0, 8, 3>>,
     <<0, 1, 5>>}

FillHalves == {<<Half, Half, Half>>, <<Half, I(1), Q(3, 2)>>}

\* cubes W1..Wn along direction u, the ones in `missing` without a box
FillScene(u, layout, halves, missing) ==
    LET at(n) == CHOOSE i \in 1..Len(layout) : WaypointNames[i] = n
        placed(n) == \E i \in 1..Len(layout) : WaypointNames[i] = n
        centre(n) == vec_mul(u, I(layout[at(n)]))
    IN  [ChainScene0 EXCEPT
            !.sel = Waypoints(Len(layout)),
            !.pos = [n \in ChainNames |->
                        IF placed(n) THEN centre(n) ELSE Zero3],
            !.wbbox = [n \in ChainNames |->
                          IF placed(n) /\ at(n) \notin missing
                          THEN CubeAt(centre(n), halves[at(n)])
                          ELSE NoBox]]

FillArgs0 == [ChainArgs0 EXCEPT !.template = None, !.fill_boxes = TRUE]

\* the geometry of the gaps
FillInputs ==
    {Input([FillArgs0 EXCEPT !.fill_divisions = IntCount(in[4])],
           FillScene(in[1], in[2], in[3], in[5])) :
        in \in FillDirections \X FillLayouts \X FillHalves
               \X (1..MaxDivisions) \X {{}, {2}}}

\* divisions, alternating scale, grouping and parenting
FillOptionInputs ==
    {Input([FillArgs0 EXCEPT !.targets = Given(Waypoints(3)),
                             !.fill_divisions = in[1],
                             !.fill_alternate_scale = in[2][1],
                             !.fill_alternate_axis = in[2][2],
                             !.group_name = in[3],
                             !.parent_instances_to = in[4]],
           FillScene(V(1, 0, 0), <<0, 4, 8>>, <<Half, Half, Half>>, {})) :
        in \in {IntCount(2), IntCount(0), BadCount}
               \X AltChoices \X {None, "grp"} \X {None, "same", "H", "ghost"}}

\* alternating scale over a chain with a closed gap in it
FillAlternateInputs ==
    {Input([FillArgs0 EXCEPT !.fill_divisions = IntCount(in[2]),
                             !.fill_alternate_scale = in[3][1],
                             !.fill_alternate_axis = in[3][2]],
           FillScene(V(1, 0, 0), in[1], <<Half, Half, Half, Half>>, {})) :
        in \in {<<0, 4, 5, 9>>, <<0, 1, 5>>} \X {1, MaxDivisions} \X AltChoices}

InitFill ==
    \E in \in FillInputs \cup FillOptionInputs \cup FillAlternateInputs :
        InitCall(in, "chain", LocChain)

SpecFill == InitFill /\ [][NextFill]_vars

\* waypoints on one line, in input order: segments of length 2 and 3, and two
\* waypoints at one place
ChainLayouts ==
    {<<V(0, 0, 0), V(5, 0, 0), V(2, 0, 0)>>, <<V(0, 0, 0), V(2, 0, 0)>>,
     <<V(1, 0, 0), V(1, 0, 0)>>, <<V(0, 3, 0), V(4, 0, 0), V(4, 0, 0)>>}

ChainSpacings ==
    {[k |-> "None", v |-> I(0)], [k |-> "bad", v |-> I(0)], Num(I(0)),
     Num(I(-1)), Num(I(1)), Num(Q(3, 2)), Num(I(9))}

\* instances per segment or by spacing, over the layouts
ChainStepInputs ==
    {Input([ChainArgs0 EXCEPT !.targets = Given(Waypoints(Len(in[1]))),
                              !.per_segment = in[2], !.spacing = in[3]],
           ScenePoints(in[1])) :
        in \in ChainLayouts
               \X {IntCount(-1), IntCount(0), IntCount(1), IntCount(2), BadCount}
               \X ChainSpacings}

\* orientation, grouping, parenting, and placements the host interrupts
ChainOptionInputs ==
    {Input([ChainArgs0 EXCEPT !.targets = Given(Waypoints(3)),
                              !.per_segment = IntCount(in[1]),
                              !.orient = in[2], !.group_name = in[3],
                              !.parent_instances_to = in[4]],
           [ScenePoints(<<V(0, 0, 0), V(5, 0, 0), V(2, 0, 0)>>)
               EXCEPT !.raises = in[5]]) :
        in \in {0, 1} \X {"none", "aim", "copy"} \X {None, "grp"}
               \X {None, "same", "H", "ghost"}
               \X ({NoRaise} \cup HostRaises)}

ChainInputs ==
    ChainResolveInputs \cup ChainStepInputs \cup ChainOptionInputs
    \cup FillOptionInputs

InitChain == \E in \in ChainInputs : InitCall(in, "chain", LocChain)

SpecChain == InitChain /\ [][NextChain]_vars

-----------------------------------------------------------------------------
(* Properties of the chain orderer                                        *)

Ordered == pc \notin {"chain", "order", "failed"}

P0 == V(0, 0, 0)

P1 == V(1, 0, 0)

P2 == V(2, 0, 0)

UnorderedInput == Ordered /\ loc.pts = <<P2, P0, P1>>

\* C4 as stated: the ordering step applied to the unordered input
\* [P2=(2,0,0), P0=(0,0,0), P1=(1,0,0)] returns the order [P0, P1, P2].
C4_AsStated == UnorderedInput => loc.ordered_pts = <<P0, P1, P2>>

\* C4 amended: on the input [P2, P0, P1] the farthest pair is found as
\* (P2, P0), the projections are measured from P2, and the order returned is
\* [P2, P1, P0]: the chain starts at the end that comes first in the input.
C4_ChainOrder ==
    UnorderedInput =>
        /\ loc.ordered_pts = <<P2, P1, P0>>
        /\ loc.ordered_nodes = <<loc.targets[1], loc.targets[3], loc.targets[2]>>
        /\ loc.A = P2 /\ loc.B = P0

C4_Witness ==
    /\ UnorderedInput
    /\ loc.targets = <<"W1", "W2", "W3">>
    /\ loc.ordered_nodes = <<"W1", "W3", "W2">>

PairDist(a, b) == vec_len(vec_sub(loc.pts[a], loc.pts[b]))

IndexPairs ==
    {p \in (1..Len(loc.pts)) \X (1..Len(loc.pts)) : p[1] < p[2]}

SortKey(i) == dot(vec_sub(loc.pts[i], loc.A), loc.dirAB)

\* C5: for every list of >= 2 existing waypoints (coincident ones included,
\* where the direction is the zero vector) the ordered sequence is a
\* permutation of the input, every node exactly once, none added or dropped;
\* the sort direction is the one unit vector from the farthest pair, and the
\* sequence ascends in the projection on it measured from the one end A.
C5_Permutation ==
    Ordered =>
        /\ Len(loc.targets) >= 2
        /\ Len(loc.order) = Len(loc.targets)
        /\ Len(loc.ordered_nodes) = Len(loc.targets)
        /\ Len(loc.ordered_pts) = Len(loc.targets)
        /\ \A i \in 1..Len(loc.targets) :
               Cardinality({r \in 1..Len(loc.order) : loc.order[r] = i}) = 1
        /\ \A r \in 1..Len(loc.order) :
               /\ loc.ordered_nodes[r] = loc.targets[loc.order[r]]
               /\ loc.ordered_pts[r] = scene.pos[loc.ordered_nodes[r]]
        /\ \A p \in IndexPairs : RLe(PairDist(p[1], p[2]), PairDist(loc.iA, loc.iB))
        /\ loc.A = loc.pts[loc.iA] /\ loc.B = loc.pts[loc.iB]
        /\ loc.dirAB = norm(vec_sub(loc.B, loc.A))
        /\ (loc.A = loc.B => loc.dirAB = Zero3)
        /\ \A r \in 1..(Len(loc.order) - 1) :
               RLe(SortKey(loc.order[r]), SortKey(loc.order[r + 1]))

C5_Witness ==
    /\ Ordered
    /\ Len(loc.targets) = 3
    /\ \A i \in 1..3 : loc.pts[i] = V(5, 0, 0)
    /\ loc.dirAB = Zero3
    /\ loc.ordered_nodes = loc.targets

LexBefore(p, q) == p[1] < q[1] \/ (p[1] = q[1] /\ p[2] <= q[2])

\* C6: _max_dist_pair on n >= 2 points returns (i, j), i < j, of maximum
\* Euclidean distance over all pairs, the first such pair in the scan with i
\* ascending, then j ascending; on the collinear points 0, 1, 2, 5 it
\* returns (index of 0, index of 5).
C6_FarthestPair ==
    Ordered =>
        LET found == <<loc.iA, loc.iB>>
        IN  /\ found \in IndexPairs
            /\ found = max_dist_pair(loc.pts)
            /\ \A p \in IndexPairs :
                   /\ RLe(PairDist(p[1], p[2]), PairDist(found[1], found[2]))
                   /\ PairDist(p[1], p[2]) = PairDist(found[1], found[2])
                          => LexBefore(found, p)
            /\ loc.pts = <<V(0, 0, 0), V(1, 0, 0), V(2, 0, 0), V(5, 0, 0)>>
                   => found = <<1, 4>>

C6_Witness ==
    /\ Ordered
    /\ loc.pts = <<V(0, 0, 0), V(1, 0, 0), V(2, 0, 0), V(5, 0, 0)>>
    /\ loc.iA = 1 /\ loc.iB = 4

-----------------------------------------------------------------------------
(* Properties of fill-box mode                                             *)

\* The host reads the sixteen numbers of xform(ws=True, matrix=...) in row
\* order, and row j of a transformation matrix is the world direction of the
\* node's local axis j (the fourth row is the translation).
BoxAxis(box, j) ==
    <<box.rot.matrix[4 * (j - 1) + 1], box.rot.matrix[4 * (j - 1) + 2],
      box.rot.matrix[4 * (j - 1) + 3]>>

\* half of the extent, along the unit vector u, of the unit cube under the
\* box's axes and scale
BoxHalfExtent(box, u) ==
    With(RMul(RAbs(box.scale[1]), RAbs(dot(BoxAxis(box, 1), u))), LAMBDA x :
    With(RMul(RAbs(box.scale[2]), RAbs(dot(BoxAxis(box, 2), u))), LAMBDA y :
    With(RMul(RAbs(box.scale[3]), RAbs(dot(BoxAxis(box, 3), u))), LAMBDA z :
        RMul(Half, RAdd(RAdd(x, y), z)))))

\* the interval the box covers along the direction, measured from the anchor
BoxCover(box, g) ==
    With(dot(vec_sub(box.pos, g.anchor), g.dir_z), LAMBDA c :
    With(BoxHalfExtent(box, g.dir_z), LAMBDA h : <<RSub(c, h), RAdd(c, h)>>))

Geo(k) == fill_geometry(loc.ordered_nodes[k], loc.ordered_nodes[k + 1])

HasGap(k) == Geo(k).skip = ""

\* the segments already handled that had a gap to fill
FilledSegments == SelectSeq([k \in 1..(loc.k - 1) |-> k], HasGap)

FillRunning ==
    /\ pc \in {"segment", "returned"}
    /\ args.fill_boxes
    /\ args.fill_divisions.ok /\ args.fill_divisions.v >= 1

\* the box of division d (0-based) of the r-th filled segment
BoxOf(r, d) == nodes[created[(r - 1) * args.fill_divisions.v + d + 1]]

Division(g, d) ==
    LET len == RDiv(g.gap_total, I(args.fill_divisions.v))
    IN  <<RAdd(g.left_proj_max, RMul(len, I(d))),
          RAdd(g.left_proj_max, RMul(len, I(d + 1)))>>

\* what the call sets on the box of division d: the centre in the middle of
\* the division, scaleZ of magnitude G / fill_divisions
BoxValues(box, g, d) ==
    /\ RMul(I(2), dot(vec_sub(box.pos, g.anchor), g.dir_z))
           = RAdd(Division(g, d)[1], Division(g, d)[2])
    /\ RAbs(box.scale[3]) = RSub(Division(g, d)[2], Division(g, d)[1])

\* P(g, d, box) for every division d of every filled segment, of geometry g,
\* with as many boxes made as the filled segments have divisions
\* (a quantifier over a singleton names a value)
EveryBox(P(_, _, _)) ==
    \A segs \in {FilledSegments} :
        /\ Len(created) = args.fill_divisions.v * Len(segs)
        /\ \A r \in 1..Len(segs) : \A g \in {Geo(segs[r])} :
           \A d \in 0..(args.fill_divisions.v - 1) :
           \A box \in {BoxOf(r, d)} : P(g, d, box)

CoversDivision(g, d, box) == BoxCover(box, g) = Division(g, d)

\* C8 as stated: for a consecutive pair with gap G > 1e-6 exactly
\* fill_divisions boxes are created, each of length G / fill_divisions, the
\* k-th covering [leftMax + k*G/fill_divisions, leftMax + (k+1)*G/fill_divisions]
\* along the direction, so that the boxes tile the gap.
C8_AsStated == FillRunning => EveryBox(CoversDivision)

AlongXorZ(g) == g.dir_z \in {V(1, 0, 0), V(-1, 0, 0), V(0, 0, 1), V(0, 0, -1)}

PlacedAsComputed(g, d, box) ==
    /\ BoxValues(box, g, d)
    /\ AlongXorZ(g) => CoversDivision(g, d, box)

\* What holds of fill-box mode: the count, the centre and the scaleZ of every
\* box are as C8 states; the box covers its division when the direction is
\* along the world X or Z axis.
FillBoxesPlaced == FillRunning => EveryBox(PlacedAsComputed)

\* two unit cubes centred 4 apart on X, fill_divisions = 2: two boxes of
\* length 1.5, over [0.5, 2] and [2, 3.5]
FillOnX ==
    /\ pc = "returned" /\ args.fill_boxes /\ args.fill_divisions = IntCount(2)
    /\ Len(loc.ordered_nodes) = 2
    /\ scene.wbbox[loc.ordered_nodes[1]] = CubeAt(V(0, 0, 0), Half)
    /\ scene.wbbox[loc.ordered_nodes[2]] = CubeAt(V(4, 0, 0), Half)
    /\ Len(created) = 2
    /\ BoxCover(BoxOf(1, 0), Geo(1)) = <<Half, I(2)>>
    /\ BoxCover(BoxOf(1, 1), Geo(1)) = <<I(2), Q(7, 2)>>

\* two unit cubes centred 4 apart on Y, fill_divisions = 2: the two boxes are
\* centred at 1.25 and 2.75 above the anchor with scaleZ 1.5, their local Z
\* axis lies along world X, and along Y they cover [0.75, 1.75] and
\* [2.25, 3.25] of the gap [0.5, 3.5]
C8_Witness ==
    /\ pc = "returned" /\ args.fill_boxes /\ args.fill_divisions = IntCount(2)
    /\ Len(loc.ordered_nodes) = 2
    /\ scene.wbbox[loc.ordered_nodes[1]] = CubeAt(V(0, 0, 0), Half)
    /\ scene.wbbox[loc.ordered_nodes[2]] = CubeAt(V(0, 4, 0), Half)
    /\ Len(created) = 2
    /\ \E g \in {Geo(1)} :
       \E first \in {BoxOf(1, 0)} : \E second \in {BoxOf(1, 1)} :
           /\ g.dir_z = V(0, 1, 0) /\ g.gap_total = I(3)
           /\ first.scale = <<I(1), I(1), Q(3, 2)>>
           /\ BoxAxis(first, 3) = V(1, 0, 0)
           /\ BoxCover(first, g) = <<Q(3, 4), Q(7, 4)>>
           /\ BoxCover(second, g) = <<Q(9, 4), Q(13, 4)>>

-----------------------------------------------------------------------------
(* instanceRadial.py: create_instance_circle_with_rotation                 *)

LocRadial ==
    [base |-> None, target |-> None, axis |-> None, angle_step |-> I(0),
     group_node |-> 0, i |-> 0]

\* mutant: the axis label is compared as given, without lower()
radial_error_case_sensitive ==
    IF Len(scene.sel) < 2 THEN "select_two"
    ELSE IF args.axis \notin AxisNames THEN "axis"
    ELSE IF ~args.num_instances.ok THEN "TypeError"
    ELSE IF args.num_instances.v = 0 THEN "ZeroDivisionError"
    ELSE ""

\* lines 19-36: the fatal errors ("" when none); float() of a count that is
\* no number and the division by a count of 0 raise
radial_error ==
    IF Len(scene.sel) < 2 THEN "select_two"
    ELSE IF Lower(args.axis) \notin AxisNames THEN "axis"
    ELSE IF ~args.num_instances.ok THEN "TypeError"
    ELSE IF args.num_instances.v = 0 THEN "ZeroDivisionError"
    ELSE ""

\* lines 19-41: selection, axis, angle step, grouping container
radial_resolve ==
    /\ pc = "radial"
    /\ IF radial_error # ""
       THEN /\ pc' = "failed"
            /\ error' = radial_error
            /\ log' = Append(log, "ls")
            /\ UNCHANGED <<loc, nodes>>
       ELSE /\ pc' = "radial_place"
            /\ loc' = [loc EXCEPT
                   !.base = scene.sel[1], !.target = scene.sel[2],
                   !.axis = Lower(args.axis),
                   !.angle_step = Q(360, args.num_instances.v),
                   !.group_node = IF args.group_name # None
                                  THEN Len(nodes) + 1 ELSE 0]
            /\ nodes' = IF args.group_name # None
                        THEN Append(nodes, NewNode("group", None)) ELSE nodes
            /\ log' = log \o <<"ls">>
                   \o (IF args.group_name # None THEN <<"group">> ELSE <<>>)
            /\ UNCHANGED error
    /\ UNCHANGED <<prior, scene, args, steps, created, warnings>>

\* mutant: the first pivot is already turned by one step
radial_angle_from_one(angle_step, i) == RMul(angle_step, I(i + 1))

\* line 60: angle_step * i
radial_angle(angle_step, i) == RMul(angle_step, I(i))

\* lines 50-55: (radius, 0, 0), (0, radius, 0) or (0, 0, radius)
offset_vector(axis, radius) ==
    [j \in 1..3 |-> IF j = AXIS_INDICES(axis) THEN radius ELSE I(0)]

\* lines 43-55, 60: the pivot of instance i: matched to the base in position
\* and rotation, put under the container, moved by the radius along its own
\* axis, and last its rotation about the axis set
radial_null(i) ==
    [moved |-> IF args.radius # I(0) THEN offset_vector(loc.axis, args.radius)
               ELSE Zero3]
    @@ [NewNode("null", None) EXCEPT
           !.pos = scene.pos[loc.base],
           !.parent = IF loc.group_node # 0 THEN UnderNew(loc.group_node)
                      ELSE World,
           !.rot = [mode |-> "euler", node |-> loc.base,
                    at |-> [j \in 1..3 |->
                               IF j = AXIS_INDICES(loc.axis)
                               THEN radial_angle(loc.angle_step, i)
                               ELSE scene.rot[loc.base][j]]]]

\* mutant: the pivot is turned before the instance is put under it
radial_place_rotate_first ==
    /\ pc = "radial_place"
    /\ loc.i < args.num_instances.v
    /\ nodes' = nodes \o
           <<radial_null(loc.i),
             [NewNode("instance", loc.target) EXCEPT
                 !.parent = UnderNew(Len(nodes) + 1)]>>
    /\ created' = Append(created, Len(nodes) + 2)
    /\ loc' = [loc EXCEPT !.i = loc.i + 1]
    /\ log' = log \o <<"group", "matchTransform">>
           \o (IF loc.group_node # 0 THEN <<"parent">> ELSE <<>>)
           \o (IF args.radius # I(0) THEN <<"move">> ELSE <<>>)
           \o <<"setAttr_rotate", "instance", "parent">>
    /\ UNCHANGED <<prior, scene, args, pc, steps, warnings, error>>

\* lines 42-62: one turn of the loop
radial_place ==
    /\ pc = "radial_place"
    /\ loc.i < args.num_instances.v
    /\ nodes' = nodes \o
           <<radial_null(loc.i),
             [NewNode("instance", loc.target) EXCEPT
                 !.parent = UnderNew(Len(nodes) + 1)]>>
    /\ created' = Append(created, Len(nodes) + 2)
    /\ loc' = [loc EXCEPT !.i = loc.i + 1]
    /\ log' = log \o <<"group", "matchTransform">>
           \o (IF loc.group_node # 0 THEN <<"parent">> ELSE <<>>)
           \o (IF args.radius # I(0) THEN <<"move">> ELSE <<>>)
           \o <<"instance", "parent", "setAttr_rotate">>
    /\ UNCHANGED <<prior, scene, args, pc, steps, warnings, error>>

\* lines 64-65: the loop is over, the created instances are selected
radial_finish ==
    /\ pc = "radial_place"
    /\ loc.i >= args.num_instances.v
    /\ pc' = "returned"
    /\ log' = Append(log, "select")
    /\ UNCHANGED <<prior, scene, args, loc, steps, nodes, created, warnings, error>>

NextRadial == radial_resolve \/ radial_place \/ radial_finish

MaxRadial == 6

\* base B (the pivot to match) and target T (the template)
RadialScene0 ==
    [sel |-> <<"B", "T">>,
     exists |-> {"B", "T", "X"},
     pos |-> [B |-> V(1, 2, 3), T |-> V(5, 0, 0), X |-> Zero3],
     rot |-> [B |-> V(10, 20, 30), T |-> V(0, 45, 0), X |-> Zero3],
     parentOf |-> [B |-> None, T |-> None, X |-> None]]

RadialArgs0 ==
    [num_instances |-> IntCount(8), axis |-> "y", group_name |-> None,
     radius |-> I(0)]

RadialInputs ==
    {Input([RadialArgs0 EXCEPT !.num_instances = IntCount(in[1]),
                               !.axis = in[2], !.group_name = in[3],
                               !.radius = in[4]],
           [RadialScene0 EXCEPT !.rot.B = in[5]]) :
        in \in (0..MaxRadial) \X {"x", "y", "z", "Y", "w"}
               \X {None, "", "grp"} \X {I(0), I(2), Q(-1, 2)}
               \X {Zero3, V(10, 20, 30)}}

\* fewer or more than two transforms selected, a count that is no number
RadialResolveInputs ==
    {Input([RadialArgs0 EXCEPT !.num_instances = in[1], !.axis = in[2]],
           [RadialScene0 EXCEPT !.sel = in[3]]) :
        in \in {IntCount(2), BadCount} \X {"y", "w"}
               \X {<<>>, <<"B">>, <<"T", "B">>, <<"B", "T", "X">>}}

InitRadial ==
    \E in \in RadialInputs \cup RadialResolveInputs :
        InitCall(in, "radial", LocRadial)

SpecRadial == InitRadial /\ [][NextRadial]_vars

-----------------------------------------------------------------------------
(* Properties of the radial placer                                         *)

RadialCount == args.num_instances.v

RadialRunning == pc \in {"radial_place", "returned"} /\ RadialCount >= 1

PivotOf(k) == nodes[nodes[created[k]].parent.new]

\* C9: with N >= 1 and a valid axis exactly N instances are created and
\* returned in creation order, the i-th (i = 0..N-1) under a pivot of its own
\* whose rotation about the chosen axis is set to i * (360/N) degrees; for
\* N = 4 on Y the rotations are 0, 90, 180, 270.
C9_Radial ==
    RadialRunning =>
        /\ Len(created) = loc.i
        /\ pc = "returned" => Len(created) = RadialCount
        /\ \A k \in 1..Len(created) :
               /\ nodes[created[k]].kind = "instance"
               /\ nodes[created[k]].of = loc.target
               /\ nodes[created[k]].parent.new \in 1..Len(nodes)
               /\ PivotOf(k).kind = "null"
               /\ PivotOf(k).rot.at[AXIS_INDICES(loc.axis)]
                      = Q(360 * (k - 1), RadialCount)
               /\ \A m \in 1..Len(created) :
                      /\ m < k => created[m] < created[k]
                      /\ m # k => nodes[created[m]].parent # nodes[created[k]].parent
        /\ (pc = "returned" /\ RadialCount = 4 /\ loc.axis = "y")
               => [k \in 1..4 |-> PivotOf(k).rot.at[2]]
                      = <<I(0), I(90), I(180), I(270)>>

C9_Witness ==
    /\ pc = "returned" /\ RadialCount = 4 /\ args.axis = "Y"
    /\ args.radius = I(0)
    /\ Len(created) = 4
    /\ PivotOf(1).rot.at = <<I(10), I(0), I(30)>>
    /\ PivotOf(2).rot.at[2] = I(90)
    /\ PivotOf(3).rot.at[2] = I(180)
    /\ PivotOf(4).rot.at[2] = I(270)

-----------------------------------------------------------------------------
(* Two calls of the linear placer                                          *)

\* what a call hands back and leaves behind, without the identity of nodes:
\* per placement index the position, the source of the rotation and the scale
call_outcome ==
    [returned |-> pc = "returned", error |-> error, warnings |-> warnings,
     poses |-> [k \in 1..Len(created) |->
                   [pos |-> nodes[created[k]].pos,
                    rot |-> nodes[created[k]].rot,
                    scale |-> nodes[created[k]].scale]]]

\* instance_child_between_parent is called once more, with the arguments of
\* the call that has ended and against the scene as that call found it; the
\* nodes of the ended call keep their identities
linear_call_again ==
    /\ pc \in {"returned", "failed"}
    /\ prior = <<>>
    /\ prior' = <<[outcome |-> call_outcome, created |-> created]>>
    /\ pc' = "linear"
    /\ loc' = LocInit
    /\ steps' = <<>>
    /\ created' = <<>>
    /\ warnings' = <<>>
    /\ error' = ""
    /\ log' = <<>>
    /\ UNCHANGED <<scene, args, nodes>>

NextTwice == NextLinear \/ linear_call_again

SpecTwice == InitLinear /\ [][NextTwice]_vars

SecondCallEnded == prior # <<>> /\ pc \in {"returned", "failed"}

-----------------------------------------------------------------------------
(* The three placers side by side                                          *)

NextPlacers == NextLinear \/ NextChain \/ NextRadial

InitPlacers == InitLinear \/ InitChain \/ InitRadial

SpecPlacers == InitPlacers /\ [][NextPlacers]_vars

\* cmds.error of the resolution: anchors (linear), template and waypoints
\* (chain), selection and axis (radial)
ResolutionErrors ==
    {"child", "parent", "anchors", "select_targets", "select_template_targets",
     "template", "targets", "select_two", "axis"}

FailedResolving == pc = "failed" /\ error \in ResolutionErrors

\* the commands a call has run are queries only
OnlyQueries == \A i \in 1..Len(log) : log[i] \in {"ls", "objExists"}

\* C11: a call of any of the three placers that ends with a fatal error of
\* resolution (anchors or targets that do not resolve, fewer than 2 waypoints,
\* an axis that is not x, y or z) has created no scene node: no instance, no
\* grouping container, no pivot, no helper; it has run queries only.
C11_NothingBeforeFatal ==
    FailedResolving => nodes = <<>> /\ created = <<>> /\ OnlyQueries

\* a linear call that asked for a grouping container and found no anchors
C11_Witness ==
    /\ FailedResolving /\ error = "anchors"
    /\ args.group_name = "grp" /\ nodes = <<>>

ReturnedEmpty == pc = "returned" /\ created = <<>>

\* no instance asked for between the waypoints, and no spacing given
NothingPerSegment ==
    /\ ~args.fill_boxes
    /\ args.spacing.k = "None"
    /\ args.per_segment.ok /\ args.per_segment.v < 1

\* C12: a call of the linear or of the chain placer that completes without a
\* fatal error and returns an empty list has emitted at least one warning,
\* whatever the count / per_segment, spacing, extent or fill input, also with
\* per_segment < 1 and no spacing.
C12_AsStated == ReturnedEmpty => warnings # <<>>

\* what the chain placer does: the empty result is silent exactly when
\* per_segment < 1 and no spacing is given
C12_SilentChain == ReturnedEmpty => (warnings = <<>> <=> NothingPerSegment)

\* a chain call with per_segment = 0 has returned the empty list in silence
C12_Witness ==
    /\ ReturnedEmpty /\ NothingPerSegment /\ warnings = <<>>
    /\ Len(loc.ordered_nodes) = 3 /\ loc.k = 3

IsLinearCall == "child" \in DOMAIN args

IsChainCall == "per_segment" \in DOMAIN args

Ended == pc \in {"returned", "failed"}

\* a spacing the call tries to convert and cannot
UnparsableSpacing ==
    \/ IsLinearCall /\ ~args.use_bbox_spacing /\ args.spacing.k = "bad"
    \/ IsChainCall /\ ~args.fill_boxes /\ args.spacing.k = "bad"

\* a count that is no integer, in bounding-box count mode
UnparsableCount == IsLinearCall /\ loc.count_mode /\ ~args.count.ok

UnparsableNumber ==
    (IsLinearCall \/ IsChainCall) /\ (UnparsableSpacing \/ UnparsableCount)

NumberWarnings ==
    {"spacing_not_number", "count_not_int", "bbox_failed", "bbox_zero"}

\* C13 as stated: an unparsable spacing, or an unparsable count in
\* bounding-box count mode, is a fatal error of the linear and chain placers:
\* the call fails instead of returning, and nothing is placed.
C13_AsStated ==
    (UnparsableNumber /\ Ended) => pc = "failed" /\ Made("instance") = {}

\* C13 as the code has it: once the anchors or targets are resolved, the call
\* with an unparsable number does not fail: it emits a warning and returns the
\* empty list; no instance is made, and every node it has made is the grouping
\* container it was asked for.
C13_Unparsable ==
    (UnparsableNumber /\ Ended /\ ~FailedResolving) =>
        /\ pc = "returned" /\ error = ""
        /\ created = <<>>
        /\ \E i \in 1..Len(warnings) : warnings[i] \in NumberWarnings
        /\ \A i \in 1..Len(nodes) : nodes[i].kind = "group"
        /\ Len(nodes) = IF args.group_name # None THEN 1 ELSE 0

\* a linear call with a spacing that is no number has returned the empty list
\* with a warning, after making its grouping container
C13_Witness ==
    /\ IsLinearCall /\ UnparsableSpacing /\ pc = "returned"
    /\ warnings = <<"spacing_not_number">>
    /\ created = <<>> /\ Len(nodes) = 1 /\ nodes[1].kind = "group"

\* the anchors as the claim names them: the argument, else the ordered
\* selection, parent first and child second (a lone selected node is the child)
ClaimedChild ==
    IF args.child # None THEN args.child
    ELSE IF Len(scene.sel) >= 2 THEN scene.sel[2]
    ELSE IF Len(scene.sel) = 1 THEN scene.sel[1]
    ELSE None

ClaimedParent ==
    IF args.parent # None THEN args.parent
    ELSE IF Len(scene.sel) >= 1 /\ scene.sel[1] # ClaimedChild THEN scene.sel[1]
    ELSE None

ClaimedCountMode ==
    args.use_bbox_spacing /\ (args.bbox_count_mode \/ ClaimedParent = None)

AnchorMissing ==
    \/ ClaimedChild = None
    \/ ClaimedChild \notin scene.exists
    \/ ClaimedParent # None /\ ClaimedParent \notin scene.exists
    \/ ClaimedParent = None /\ ~ClaimedCountMode

\* C14 as stated: the linear placer fails exactly when a required anchor
\* cannot be resolved (no child, a child or a given parent that does not
\* exist, no parent outside bounding-box count mode); in every other case
\* the call does not fail.
C14_AsStated == Ended => (pc = "failed" <=> AnchorMissing)

\* the resolution itself is as stated: its errors are raised exactly for a
\* missing anchor; the one other failure is the TypeError of a count that is
\* no number, outside bounding-box spacing and with no spacing given
C14_Resolution ==
    Ended =>
        /\ (pc = "failed" /\ error \in ResolveErrors) <=> AnchorMissing
        /\ (pc = "failed" /\ error \notin ResolveErrors) <=>
               /\ ~AnchorMissing
               /\ ~args.count.ok
               /\ ~ClaimedCountMode
               /\ ~args.use_bbox_spacing /\ args.spacing.k = "None"

\* both anchors resolved, FixedCount mode, a count that is no number: the call
\* has failed with a TypeError
C14_Witness ==
    /\ pc = "failed" /\ error = "TypeError"
    /\ ~AnchorMissing /\ ~args.count.ok
    /\ loc.parent = "P" /\ loc.child = "C"

\* the waypoints that are left once those not in the scene are discarded (none
\* when template and targets were to come from an empty selection)
WaypointsLeft ==
    IF chain_from_selection /\ scene.sel = <<>> THEN <<>>
    ELSE SelectSeq(chain_targets, Exists)

ChainResolutionErrors ==
    {"select_targets", "select_template_targets", "template", "targets"}

\* C15: a chain call, in fill-box mode or not, that is left with fewer than 2
\* waypoints after discarding the targets that do not exist fails with a
\* fatal error, before any position is read, any order computed or any node
\* created; and the error for too few targets is raised in no other case.
C15_TooFewWaypoints ==
    /\ (IsChainCall /\ pc # "chain" /\ Len(WaypointsLeft) < 2) =>
          /\ pc = "failed" /\ error \in ChainResolutionErrors
          /\ nodes = <<>> /\ created = <<>>
          /\ loc.pts = <<>> /\ loc.order = <<>> /\ loc.ordered_nodes = <<>>
          /\ OnlyQueries
    /\ (IsChainCall /\ pc = "failed" /\ error = "targets") =>
          Len(WaypointsLeft) < 2

\* fill-box mode, two targets given of which one does not exist, a grouping
\* container asked for: the call has failed with nothing made
C15_Witness ==
    /\ IsChainCall /\ pc = "failed" /\ error = "targets"
    /\ args.fill_boxes /\ args.group_name = "grp"
    /\ Len(chain_targets) = 2 /\ Len(WaypointsLeft) = 1
    /\ nodes = <<>> /\ loc.order = <<>>

IsRadialCall == "num_instances" \in DOMAIN args

\* x, y or z in either case
AxisLabelValid == args.axis \in {"x", "y", "z", "X", "Y", "Z"}

\* C16: the radial placer fails with the missing-input error when fewer than 2
\* transforms are selected and with the invalid-axis error when the axis label
\* is not x, y or z in either case; with 2 or more transforms, a valid axis and
\* a count N >= 1 it does not fail: it returns N instances.
C16_RadialErrors ==
    (IsRadialCall /\ pc # "radial") =>
        /\ Len(scene.sel) < 2 => pc = "failed" /\ error = "select_two"
        /\ (Len(scene.sel) >= 2 /\ ~AxisLabelValid) =>
               pc = "failed" /\ error = "axis"
        /\ (Len(scene.sel) >= 2 /\ AxisLabelValid /\ args.num_instances.ok
               /\ args.num_instances.v >= 1) =>
               /\ pc # "failed" /\ error = ""
               /\ pc = "returned" => Len(created) = args.num_instances.v

\* an upper-case axis label and 3 instances: the call has returned them
C16_Witness ==
    /\ IsRadialCall /\ pc = "returned"
    /\ args.axis = "Y" /\ args.num_instances.v = 3 /\ Len(created) = 3

-----------------------------------------------------------------------------
(* Linear and chain calls in a host whose commands may raise               *)

NextHost == NextLinear \/ NextChain

InitHost ==
    \/ \E in \in LinearInputs \cup LinearRaiseInputs :
           InitCall(in, "linear", LocInit)
    \/ InitChain

SpecHost == InitHost /\ [][NextHost]_vars

\* C17: when a call of a placer has ended, by a normal return, by an early
\* return with a diagnostic or by an exception raised while placing, every
\* helper it made for aiming is deleted: the aim locator of bounding-box
\* count mode and every temporary aim constraint.
C17_HelpersReleased ==
    Ended => Alive("locator") = {} /\ Alive("aimConstraint") = {}

\* bounding-box count mode, orient "aim": the aim constraint of the second
\* placement raised, after the locator was made for the first; the call has
\* failed and the locator is deleted
C17_Witness ==
    /\ pc = "failed" /\ error = "RuntimeError"
    /\ IsLinearCall /\ loc.count_mode /\ args.orient = "aim"
    /\ Len(created) = 1
    /\ Made("locator") # {} /\ Alive("locator") = {}
    /\ Made("aimConstraint") # {}

\* C18 as stated: the grouping container is made at the first successful
\* placement only: a call of the linear or chain placer that returns the
\* empty list has made no grouping container, and a call that places
\* instances (with a container asked for) has made exactly one.
C18_AsStated ==
    pc = "returned" =>
        /\ created = <<>> => Made("group") = {}
        /\ (created # <<>> /\ args.group_name # None) =>
               Cardinality(Made("group")) = 1

\* what the code does: once the anchors or targets are resolved and the call
\* is past its preparation, the container asked for exists, and no other,
\* whether or not an instance is ever placed
C18_EagerGroup ==
    (pc \notin {"linear", "prepare", "chain", "order", "chain_prepare"}
        /\ ~FailedResolving) =>
        Cardinality(Made("group")) = IF args.group_name # None THEN 1 ELSE 0

\* a linear call with count = 0 and a grouping container asked for: it has
\* returned the empty list with a warning and left the container
C18_Witness ==
    /\ IsLinearCall /\ ReturnedEmpty /\ warnings = <<"count_lt_1">>
    /\ args.group_name # None
    /\ Len(nodes) = 1 /\ nodes[1].kind = "group" /\ nodes[1].alive

\* the commands that read a world transform: xform(q, ws) of translation,
\* rotation or matrix
TransformQueries == {"query_t", "query_ro", "query_bb", "xform_q_translation"}

\* the queries among `queries` that the call has run after its first cmds.instance
QueriesAfterInstance(queries) ==
    {j \in 1..Len(log) :
        log[j] \in queries /\ \E i \in 1..(j - 1) : log[i] = "instance"}

\* C19 as stated: in every call of the linear and chain placers, for every
\* orientation mode, no world transform is queried once the first instance
\* has been created.
C19_AsStated == QueriesAfterInstance(TransformQueries) = {}

\* what the code does: with orient "copy" every placement reads the world
\* rotation of the template again, right after its instance is placed; with
\* the other orientation modes nothing is read after the first instance
C19_CopyRereads ==
    /\ args.orient # "copy" => QueriesAfterInstance(TransformQueries) = {}
    /\ \A j \in QueriesAfterInstance(TransformQueries) : log[j] = "query_ro"
    /\ (args.orient = "copy" /\ pc = "returned") =>
           Cardinality(QueriesAfterInstance({"query_ro"})) = Len(created)

\* a chain call with orient "copy" has returned 2 instances and has read the
\* rotation of the template twice, each time after an instance was created
C19_Witness ==
    /\ IsChainCall /\ pc = "returned" /\ args.orient = "copy"
    /\ Len(created) = 2
    /\ Cardinality(QueriesAfterInstance({"query_ro"})) = 2

-----------------------------------------------------------------------------
(* Properties of bounding-box count mode                                   *)

\* The host returns the sixteen numbers of xform(q, ws, matrix) in row order,
\* and row j of the matrix is the world basis vector of the node's local
\* axis j.
WorldBasis(node, j) ==
    <<scene.matrix[node][4 * (j - 1) + 1], scene.matrix[node][4 * (j - 1) + 2],
      scene.matrix[node][4 * (j - 1) + 3]>>

\* what the code takes for it: column j of the upper 3 x 3 block
MatrixColumn(node, j) ==
    <<scene.matrix[node][j], scene.matrix[node][j + 4],
      scene.matrix[node][j + 8]>>

\* the chosen local axis (x when the label is none of x, y, z)
ChosenAxis ==
    IF Lower(args.bbox_axis) \in AxisNames
    THEN AXIS_INDICES(Lower(args.bbox_axis)) ELSE 1

\* the child's object-space bounding-box size on the chosen axis
ObjectSize ==
    RAbs(RSub(scene.bbox[loc.child].max[ChosenAxis],
              scene.bbox[loc.child].min[ChosenAxis]))

\* count mode, count n >= 1, an extent that is not degenerate, call returned
CountModeReturned ==
    /\ IsLinearCall /\ pc = "returned" /\ loc.count_mode
    /\ args.count.ok /\ args.count.v >= 1
    /\ scene.bbox[loc.child].ok
    /\ RLt(Eps, ObjectSize)
    /\ RLt(Eps, vec_len(WorldBasis(loc.child, ChosenAxis)))
    /\ RLt(Eps, vec_len(MatrixColumn(loc.child, ChosenAxis)))

\* n instances (n + 1 with include_end), the k-th at child + k * s * u for
\* s = size * |axis| and u = axis / |axis|, that is at child + k * size * axis
StepsAlong(axis) ==
    /\ Len(created) = args.count.v + EndSteps
    /\ \A k \in 1..Len(created) :
           nodes[created[k]].pos =
               vec_add(scene.pos[loc.child],
                       vec_mul(axis, RMul(I(k), ObjectSize)))

\* C20 as stated: in bounding-box count mode with count n >= 1 and an extent
\* that is not degenerate, exactly n instances are created (n + 1 with
\* include_end), the k-th at child_position + k * s * u, s being the child's
\* object-space size on the chosen local axis times the length of that axis's
\* world basis vector and u that basis vector normalised.
C20_AsStated ==
    CountModeReturned => StepsAlong(WorldBasis(loc.child, ChosenAxis))

\* what the code does: the steps run along the column of the world matrix,
\* which is the axis's world basis vector only for a child that is not rotated
C20_AlongColumn ==
    CountModeReturned => StepsAlong(MatrixColumn(loc.child, ChosenAxis))

\* a child at (4, 0, 0) whose local X axis is (3, 4, 0) in the world, unit
\* object size, count 2: the instances are at (7, -4, 0) and (10, -8, 0), not
\* at (7, 4, 0) and (10, 8, 0)
C20_Witness ==
    /\ CountModeReturned /\ ChosenAxis = 1 /\ args.count.v = 2
    /\ ~args.include_end
    /\ WorldBasis(loc.child, 1) = V(3, 4, 0)
    /\ ObjectSize = I(1)
    /\ nodes[created[1]].pos = V(7, -4, 0)
    /\ nodes[created[2]].pos = V(10, -8, 0)

\* a call in one of the two bounding-box modes, past the resolution of its
\* anchors, on a child whose bounding box can be read
BBoxModeEnded ==
    /\ IsLinearCall /\ args.use_bbox_spacing
    /\ Ended /\ ~FailedResolving
    /\ scene.bbox[loc.child].ok

\* nothing placed, a warning, no failure
EmptyWithWarning ==
    /\ pc = "returned" /\ error = ""
    /\ created = <<>> /\ Made("instance") = {}
    /\ warnings # <<>>

\* C21 as stated: in bounding-box spacing mode and in bounding-box count mode,
\* a child whose extent on the chosen local axis is <= 1e-6, or whose world
\* basis vector for that axis has length <= 1e-6, yields the empty result
\* with a warning, no instance and no fatal error.
C21_AsStated ==
    (BBoxModeEnded
        /\ (RLe(ObjectSize, Eps)
              \/ RLe(vec_len(WorldBasis(loc.child, ChosenAxis)), Eps))) =>
        EmptyWithWarning

\* what the code does: the length it tests is that of the matrix column
C21_ColumnDegenerate ==
    (BBoxModeEnded
        /\ (RLe(ObjectSize, Eps)
              \/ RLe(vec_len(MatrixColumn(loc.child, ChosenAxis)), Eps))) =>
        EmptyWithWarning /\ warnings = <<"bbox_zero">>

\* a child scaled to 0 on its local X axis and turned by 90 degrees about Z,
\* bounding-box count mode on x with count 2: two instances are placed
C21_Witness ==
    /\ BBoxModeEnded /\ loc.count_mode /\ pc = "returned"
    /\ ChosenAxis = 1
    /\ WorldBasis(loc.child, 1) = Zero3
    /\ MatrixColumn(loc.child, 1) = V(0, -1, 0)
    /\ Len(created) = 2 /\ warnings = <<>>

-----------------------------------------------------------------------------
(* Properties of the grouping of the linear placer                         *)

\* the anchor the instances are attached to: none when parenting is not
\* requested; else the resolved parent; else, in bounding-box count mode, the
\* parent of the child
AttachAnchor ==
    IF ~args.parent_instances_to_parent THEN None
    ELSE IF loc.parent # None THEN loc.parent
    ELSE IF scene.parentOf[loc.child] # None
            /\ scene.parentOf[loc.child] \in scene.exists
    THEN scene.parentOf[loc.child]
    ELSE None

UnderAnchor == IF AttachAnchor # None THEN UnderScene(AttachAnchor) ELSE World

-----------------------------------------------------------------------------
(* Properties of fill-box mode: skipped segments, alternation, template    *)

\* the box is where its division is and has a length above zero, both as the
\* scale on its own Z axis and as its extent along the travel direction
PlacedWithLength(g, d, box) ==
    /\ BoxValues(box, g, d)
    /\ RLt(I(0), RAbs(box.scale[3]))
    /\ RLt(I(0), BoxHalfExtent(box, g.dir_z))
    /\ RLt(Eps, g.gap_total)

\* the nodes returned are distinct and in the order of their creation
InCreationOrder == \A i \in 1..(Len(created) - 1) : created[i] < created[i + 1]

\* C23: in fill-box mode a segment with a bounding box that cannot be
\* measured, a centre-to-centre distance < 1e-6 or a gap <= 1e-6 creates no
\* box and does not end the call; every other segment gets its boxes: the
\* returned list is the concatenation, in segment order, of the boxes of the
\* fillable segments, and every box has a length above zero along the
\* travel direction.
C23_PartialSuccess ==
    /\ (IsChainCall /\ args.fill_boxes /\ pc = "failed") => FailedResolving
    /\ FillRunning =>
          /\ EveryBox(PlacedWithLength)
          /\ InCreationOrder
          /\ Made("polyCube") \cup Made("instance")
                 = {created[i] : i \in 1..Len(created)}

\* three waypoints, the first gap closed and the second open, 2 divisions:
\* the call has returned the 2 boxes of the second segment
C23_Witness ==
    /\ FillRunning /\ pc = "returned" /\ args.fill_divisions.v = 2
    /\ Len(loc.ordered_nodes) = 3
    /\ Geo(1).skip = "gap" /\ Geo(2).skip = ""
    /\ Len(created) = 2 /\ warnings = <<>>
    /\ BoxValues(nodes[created[2]], Geo(2), 1)

\* the axis the caller asks to alternate on (1-based), 0 when there is none
FillAlternateAxis ==
    IF args.fill_alternate_scale /\ Lower(args.fill_alternate_axis) \in AxisNames
    THEN AXIS_INDICES(Lower(args.fill_alternate_axis))
    ELSE 0

\* the fill-box call is in its loop or has returned
FillCall == IsChainCall /\ args.fill_boxes /\ pc \in {"segment", "returned"}

\* C24: in fill-box mode with alternating scale on axis a, the box with
\* running index i (counting every box created in the call from 0, over all
\* segments, skipped segments not counted) has a negative scale on axis a
\* iff i is odd, and its other two scale components are never negative.
C24_RunningIndex ==
    FillCall =>
        /\ loc.global_index = Len(created)
        /\ \A i \in 1..Len(created) : \A j \in 1..3 :
               RLt(nodes[created[i]].scale[j], I(0))
                  <=> (j = FillAlternateAxis /\ (i - 1) % 2 = 1)
               /\ nodes[created[i]].scale[j] # I(0)

\* four waypoints with the middle gap closed, one box a segment, alternation
\* on Y: the second box, the only one of the last segment, is negated on Y
\* and the first is not
C24_Witness ==
    /\ FillCall /\ pc = "returned" /\ FillAlternateAxis = 2
    /\ Len(loc.ordered_nodes) = 4 /\ Geo(2).skip = "gap"
    /\ loc.fill_divisions_value = 1 /\ Len(created) = 2
    /\ RLt(nodes[created[2]].scale[2], I(0))
    /\ RLt(I(0), nodes[created[1]].scale[2])

\* C25: a fill-box call that has placed a box has made exactly one polyCube,
\* together with its first box: the polyCube is the first returned node,
\* every later box is an instance of it, and box_template is the name the
\* first box bears after it has been re-parented, so that no cmds.instance
\* of the call fails on a stale name.  A call that has placed no box has made
\* no polyCube.
C25_TemplateReuse ==
    /\ (IsChainCall /\ args.fill_boxes /\ pc = "failed") => FailedResolving
    /\ FillCall =>
          /\ Made("polyCube") = (IF created = <<>> THEN {} ELSE {created[1]})
          /\ (created = <<>>) <=> (loc.box_template = NoTemplate)
          /\ created # <<>> =>
                /\ loc.box_template
                      = NodeName(created[1], nodes[created[1]].parent)
                /\ Resolves(loc.box_template, nodes)
          /\ \A i \in 2..Len(created) :
                /\ nodes[created[i]].kind = "instance"
                /\ nodes[created[i]].of = created[1]

\* two segments of 2 boxes under the grouping container: the first box is
\* the polyCube, moved under the container, and the three others are
\* instances of it made after the move
C25_Witness ==
    /\ FillCall /\ pc = "returned" /\ loc.group_node # 0
    /\ Len(created) = 4
    /\ nodes[created[1]].kind = "polyCube"
    /\ nodes[created[1]].parent = UnderNew(loc.group_node)
    /\ loc.box_template = NodeName(created[1], UnderNew(loc.group_node))
    /\ nodes[created[4]].of = created[1]

-----------------------------------------------------------------------------
(* Properties of the chain placer between waypoints                        *)

\* a chain call that places instances is in its loops or has returned
ChainPlacing ==
    /\ IsChainCall /\ ~args.fill_boxes
    /\ pc \in {"segment", "chain_place", "returned"}
    /\ chain_spacing_warning = ""

ChainBySpacing == args.spacing.k \notin {"None", "bad"}

\* the steps of the linear placer for the anchors p0, p1 with
\* include_end = false (instanceArray.py 283-308)
LinearFractions(p0, p1) ==
    LET total_dist == vec_len(vec_sub(p1, p0))
    IN  IF ChainBySpacing
        THEN IF RLe(total_dist, Eps) THEN <<>>
             ELSE spacing_walk(args.spacing.v, args.spacing.v, total_dist)
        ELSE fixed_count_steps(args.per_segment.v)

\* the fractions are s/(per_segment + 1), or the k*d/|LR| with
\* k*d < |LR| - 1e-6, all of them
FractionsAsStated(fr, p0, p1) ==
    LET total_dist == vec_len(vec_sub(p1, p0))
        d == args.spacing.v
    IN  IF ChainBySpacing
        THEN /\ \A k \in 1..Len(fr) :
                   /\ RMul(fr[k], total_dist) = RMul(I(k), d)
                   /\ RLt(RMul(I(k), d), RSub(total_dist, Eps))
             /\ ~RLt(RMul(I(Len(fr) + 1), d), RSub(total_dist, Eps))
             /\ RLe(total_dist, Eps) => fr = <<>>
        ELSE /\ Len(fr) = (IF args.per_segment.v < 0 THEN 0
                           ELSE args.per_segment.v)
             /\ \A k \in 1..Len(fr) : fr[k] = Q(k, args.per_segment.v + 1)

\* where the linear placer puts its instances over the segments k..m-1
RECURSIVE LinearPositionsFrom(_)
LinearPositionsFrom(k) ==
    IF k >= Len(loc.ordered_pts) THEN <<>>
    ELSE LET p0 == loc.ordered_pts[k]
             p1 == loc.ordered_pts[k + 1]
             fr == LinearFractions(p0, p1)
         IN  [i \in 1..Len(fr) |-> vec_add(p0, vec_mul(vec_sub(p1, p0), fr[i]))]
             \o LinearPositionsFrom(k + 1)

\* C26: without fill boxes the chain placer puts, on each consecutive ordered
\* pair (L, R), instances where the linear placer puts them for the anchors
\* L, R with include_end = false: at s/(per_segment + 1), s = 1..per_segment,
\* or at k*d/|LR| for every k >= 1 with k*d < |LR| - 1e-6 (none when
\* |LR| <= 1e-6); the created list is in segment order then increasing
\* position, (m - 1) * per_segment instances for m waypoints in count mode.
C26_AgreesWithLinear ==
    (ChainPlacing /\ (ChainBySpacing \/ args.per_segment.ok)) =>
        \E expected \in {LinearPositionsFrom(1)} :
            /\ Len(created) <= Len(expected)
            /\ \A i \in 1..Len(created) :
                  /\ nodes[created[i]].pos = expected[i]
                  /\ nodes[created[i]].kind = "instance"
            /\ \A k \in 1..(Len(loc.ordered_pts) - 1) :
                  FractionsAsStated(LinearFractions(loc.ordered_pts[k],
                                                    loc.ordered_pts[k + 1]),
                                    loc.ordered_pts[k], loc.ordered_pts[k + 1])
            /\ pc = "returned" =>
                  /\ Len(created) = Len(expected)
                  /\ (~ChainBySpacing /\ args.per_segment.v >= 0) =>
                        Len(created)
                           = (Len(loc.ordered_nodes) - 1) * args.per_segment.v

\* three waypoints given out of order at 0, 5 and 2 on X, two instances a
\* segment: four instances, at 2/3, 4/3, 3 and 4
C26_Witness ==
    /\ ChainPlacing /\ pc = "returned" /\ ~ChainBySpacing
    /\ args.per_segment = IntCount(2) /\ Len(loc.ordered_nodes) = 3
    /\ [i \in 1..Len(created) |-> nodes[created[i]].pos]
          = <<<<Q(2, 3), I(0), I(0)>>, <<Q(4, 3), I(0), I(0)>>,
              V(3, 0, 0), V(4, 0, 0)>>

-----------------------------------------------------------------------------
(* Properties of the chain orderer: sortedness and ends                    *)

\* the scalar projection of (point i - A) on the direction A -> B, with A, B
\* the points of the pair found
Projection(i) ==
    dot(vec_sub(loc.pts[i], loc.pts[loc.iA]),
        norm(vec_sub(loc.pts[loc.iB], loc.pts[loc.iA])))

\* the pair found is at the greatest distance of all pairs
PairIsFarthest ==
    /\ <<loc.iA, loc.iB>> \in IndexPairs
    /\ \A p \in IndexPairs : RLe(PairDist(p[1], p[2]), PairDist(loc.iA, loc.iB))

\* C27: with (A, B) the farthest pair of the input positions, the ordered
\* sequence has non-decreasing projection of (point - A) on the direction
\* A -> B, and points of equal projection keep their relative input order.
C27_Sorted ==
    Ordered =>
        /\ PairIsFarthest
        /\ \A r \in 1..Len(loc.order) : \A q \in 1..Len(loc.order) :
               r < q =>
                 /\ RLe(Projection(loc.order[r]), Projection(loc.order[q]))
                 /\ Projection(loc.order[r]) = Projection(loc.order[q])
                       => loc.order[r] < loc.order[q]
        /\ \A r \in 1..Len(loc.order) :
               loc.ordered_pts[r] = loc.pts[loc.order[r]]

\* ends at (0,0,0) and (8,0,0) given first, then (4,-3,0) before (4,3,0):
\* the two middle points have the projection 4 and stay in input order
C27_Witness ==
    /\ Ordered
    /\ loc.pts = <<V(8, 0, 0), V(4, -3, 0), V(0, 0, 0), V(4, 3, 0)>>
    /\ loc.order = <<1, 2, 4, 3>>
    /\ Projection(2) = I(4) /\ Projection(4) = I(4)

-----------------------------------------------------------------------------
(* Properties of the linear placer: the variant in force                   *)

\* the variant the arguments and the resolved parent select
Variant ==
    IF args.use_bbox_spacing /\ (args.bbox_count_mode \/ loc.parent = None)
    THEN "BoundingBoxCount"
    ELSE IF args.use_bbox_spacing THEN "BoundingBoxSpacing"
    ELSE IF args.spacing.k # "None" THEN "FixedSpacing"
    ELSE "FixedCount"

\* the diagnostics a variant gives
VariantWarnings ==
    [BoundingBoxCount |-> {"bbox_failed", "bbox_zero", "count_not_int",
                           "count_lt_1"},
     BoundingBoxSpacing |-> {"bbox_failed", "bbox_zero", "same_position",
                             "no_steps"},
     FixedSpacing |-> {"spacing_not_number", "spacing_not_positive",
                       "same_position", "no_steps"},
     FixedCount |-> {"count_lt_1", "no_steps"}]

\* the result is the walk at distance d from the parent to the child, with
\* the far end when include_end is set: nothing else decides it
WalkResult(d) ==
    \E walk \in {IF RLe(TotalDist, Eps) THEN <<>>
                  ELSE spacing_walk(d, d, TotalDist)} :
    \E expected \in {walk \o (IF args.include_end THEN <<I(1)>> ELSE <<>>)} :
        /\ pc = "returned" /\ error = ""
        /\ [k \in 1..Len(created) |-> nodes[created[k]].pos]
              = [k \in 1..Len(expected) |-> Between(expected[k])]
        /\ (warnings = <<>>) <=> (expected # <<>>)

\* the spacing bounding-box spacing mode measures, when it measures one
MeasuredSpacing == compute_bbox_spacing(loc.child, args.bbox_axis)

\* C29: one variant drives a call of the linear placer: bounding-box count
\* mode when use_bbox_spacing and (bbox_count_mode or no parent resolved),
\* else bounding-box spacing when use_bbox_spacing, else fixed spacing when
\* spacing is not None, else fixed count.  Under bounding-box spacing the
\* result is the walk at the measured spacing whatever spacing and count are;
\* under fixed spacing it is the walk at spacing whatever count is (a count
\* < 1 does not empty it); the diagnostics are those of the variant.
C29_Precedence ==
    (IsLinearCall /\ Ended /\ ~FailedResolving) =>
        /\ loc.count_mode <=> Variant = "BoundingBoxCount"
        /\ \A i \in 1..Len(warnings) : warnings[i] \in VariantWarnings[Variant]
        /\ Len(warnings) <= 1
        /\ Variant # "FixedCount" => error = ""
        /\ (Variant = "BoundingBoxCount" /\ warnings = <<>>) =>
              Len(created) = (IF args.count.v < 0 THEN 0 ELSE args.count.v)
                                + EndSteps
        /\ (Variant = "BoundingBoxSpacing" /\ MeasuredSpacing.ok
               /\ RLt(Eps, MeasuredSpacing.spacing)) =>
              WalkResult(MeasuredSpacing.spacing)
        /\ (Variant = "FixedSpacing" /\ args.spacing.k = "num"
               /\ RLt(I(0), args.spacing.v)) =>
              WalkResult(args.spacing.v)
        /\ (Variant = "FixedCount" /\ args.count.ok /\ args.count.v >= 1) =>
              /\ pc = "returned" /\ warnings = <<>>
              /\ Len(created) = args.count.v + EndSteps

\* fixed spacing 2 between anchors 4 apart with count = 0: one instance, at
\* the middle, and no diagnostic
C29_Witness ==
    /\ IsLinearCall /\ pc = "returned" /\ Variant = "FixedSpacing"
    /\ args.spacing = Num(I(2)) /\ args.count = IntCount(0)
    /\ ~args.include_end /\ TotalDist = I(4)
    /\ Len(created) = 1 /\ nodes[created[1]].pos = V(2, 0, 0)
    /\ warnings = <<>>

-----------------------------------------------------------------------------
(* Properties of the radial placer: the order of the steps                 *)

\* the commands of one pivot, as the claim orders them
PivotSteps ==
    <<"group", "matchTransform">>
    \o (IF args.group_name # None THEN <<"parent">> ELSE <<>>)
    \o (IF args.radius # I(0) THEN <<"move">> ELSE <<>>)
    \o <<"instance", "parent", "setAttr_rotate">>

\* the commands run before the first pivot is made
RadialPrelude ==
    Len(log) - Len(PivotSteps) * loc.i - (IF pc = "returned" THEN 1 ELSE 0)

\* the commands of pivot k (0-based) in the log
PivotLog(k) ==
    SubSeq(log, RadialPrelude + Len(PivotSteps) * k + 1,
           RadialPrelude + Len(PivotSteps) * (k + 1))

\* the place in the log of the n-th command named c of pivot k
At(k, c, n) ==
    CHOOSE x \in 1..Len(log) :
        /\ x > RadialPrelude + Len(PivotSteps) * k
        /\ log[x] = c
        /\ Cardinality({y \in (RadialPrelude + Len(PivotSteps) * k + 1)..x :
                            log[y] = c}) = n

\* C30: for each i the radial placer creates the pivot, matches it to the
\* base, (with a container) parents it under the container, (with a radius)
\* offsets it, creates the instance and parents it under the pivot, and only
\* then sets the pivot's rotation; pivot i is completed before pivot i + 1 is
\* created.
C30_StepOrder ==
    (IsRadialCall /\ pc \in {"radial_place", "returned"}) =>
        /\ RadialPrelude >= 1
        /\ \A x \in 1..RadialPrelude :
               log[x] \notin {"matchTransform", "instance", "setAttr_rotate",
                              "move", "parent"}
        /\ \A k \in 0..(loc.i - 1) :
               /\ PivotLog(k) = PivotSteps
               /\ At(k, "instance", 1) < At(k, "setAttr_rotate", 1)
               /\ At(k, "instance", 1) + 1 = At(k, "setAttr_rotate", 1) - 1
               /\ log[At(k, "instance", 1) + 1] = "parent"
               /\ At(k, "group", 1) < At(k, "matchTransform", 1)
               /\ At(k, "matchTransform", 1) < At(k, "instance", 1)
               /\ k + 1 < loc.i =>
                     At(k, "setAttr_rotate", 1) < At(k + 1, "group", 1)
        /\ Len(created) = loc.i

\* three pivots under a container, at radius 2: seven commands a pivot, the
\* second pivot's rotation set as the 16th command, after its instance was
\* parented as the 15th and before the third pivot is made as the 17th
C30_Witness ==
    /\ IsRadialCall /\ pc = "returned" /\ RadialCount = 3
    /\ args.group_name = "grp" /\ args.radius = I(2)
    /\ RadialPrelude = 2
    /\ SubSeq(log, 14, 17) = <<"instance", "parent", "setAttr_rotate", "group">>
====
